---- MODULE Spec2Model ----
(***************************************************************************)
(* State-machine model of the GPU resource and queue orchestration layer   *)
(* of the Vulkan wrapper: queue selection and the capability -> queue map  *)
(* of the logical device, the swapchain (re)build, the bindless descriptor *)
(* manager, the memory-type search, the staged upload, the window, the     *)
(* instance, the render pass, the surface format selection, the            *)
(* graphics/present family search with the demo's VulkanContext, the       *)
(* texture and the frame of the demo's main.                               *)
(*                                                                         *)
(* Conventions.  A vk::QueueFlags / vk::MemoryPropertyFlags mask is the    *)
(* set of its single-bit values, so `a & b` is \cap and `a | b` is \cup.   *)
(* A reference to a Queue object is its 1-based position in the owning     *)
(* vector `queues`.  A C++ index i is the TLA+ sequence position i + 1.    *)
(***************************************************************************)
EXTENDS Integers, Sequences, FiniteSets, TLC

VARIABLES
    properties,              \* driver: physical_device.getQueueFamilyProperties()
    queue_family_info_list,  \* LogicalDeviceInfo::queue_family_info_list
    pc,                      \* position of the LogicalDevice constructor
    device_created,          \* LogicalDevice::device is set
    queues,                  \* LogicalDevice::queues
    queue_map,               \* LogicalDevice::queue_map
    sp_family,               \* second pass: position of `family` in the list
    permutation,             \* second pass: the loop variable `permutation`
    sp_iter,                 \* second pass: iterations of the current family
    lookups,                 \* number of getQueues calls after construction
    last_add,                \* the last add operation on the request list, and its outcome
    adds,                    \* number of add operations so far
    swapchain,               \* vkw::swapchain: its parameters and what it has built
    driver_calls,            \* the driver calls the swapchain has made, in order
    resizes,                 \* number of swapchain resizes so far
    manager,                 \* the bindless_descriptor_manager and the user's pointer to it
    buffer_table,            \* bindless_descriptor_manager::buffer_table
    buffers,                 \* bindless_descriptor_manager::buffers (handle -> weak reference)
    descriptor_set,          \* the descriptors written into the manager's set
    resources,               \* every indexed_buffer created so far, in creation order
    memory_properties,       \* driver: physical_device.getMemoryProperties().memoryTypes
    memory_request,          \* arguments of the memory-type search: type bits, wanted flags
    memory_call,             \* the memory-type search that ran, and its outcome
    dst_buffer,              \* the buffer a staged upload writes to, with its device memory
    upload_data,             \* the span passed to the staged upload
    upload_call,             \* the staged upload that ran, and its outcome
    windows,                 \* every vkw::window constructed so far
    window_calls,            \* the windowing-library and driver calls of the windows, in order
    instance_input,          \* instance: the configuration passed in and the driver's lists
    instance_config,         \* instance: the layer and extension lists after validation
    render_pass,             \* vkw::render_pass: its members
    surface_formats,         \* the surface formats passed to select_srgb_surface_format
    format_call,             \* the surface format selection that ran, and its outcome
    surface_support,         \* driver: the families getSurfaceSupportKHR reports as presentable
    search_call,             \* the graphics/present family search that ran, and its outcome
    context,                 \* the demo's VulkanContext: its members
    texture,                 \* Texture: its members and the arguments it was built with
    texture_calls,           \* the calls of the last Texture::setImage, in order
    frame,                   \* the demo frame of main: position and driver state
    frame_calls              \* the driver and library calls of the demo frame, in order

devVars == <<properties, queue_family_info_list, pc, device_created, queues,
             queue_map, sp_family, permutation, sp_iter, lookups>>

infoVars == <<last_add, adds>>

swapVars == <<swapchain, driver_calls, resizes>>

bindVars == <<manager, buffer_table, buffers, descriptor_set, resources>>

memVars == <<memory_properties, memory_request, memory_call>>

uploadVars == <<dst_buffer, upload_data, upload_call>>

windowVars == <<windows, window_calls>>

instVars == <<instance_input, instance_config>>

passVars == <<render_pass>>

fmtVars == <<surface_formats, format_call>>

searchVars == <<surface_support, search_call, context>>

textureVars == <<texture, texture_calls>>

frameVars == <<frame, frame_calls>>

\* The components above, and the ones below
coreVars == <<devVars, infoVars, swapVars, bindVars, memVars>>
laterVars == <<uploadVars, windowVars, instVars, passVars, fmtVars>>
demoVars == <<searchVars, textureVars, frameVars>>

vars == <<coreVars, laterVars, demoVars>>

\* What the logical device operations leave alone
nonDevVars == <<infoVars, swapVars, bindVars, memVars, laterVars, demoVars>>

\* What the request-list operations leave alone
nonInfoVars == <<pc, device_created, queues, queue_map, sp_family, permutation,
                 sp_iter, lookups, swapVars, bindVars, memVars, laterVars, demoVars>>

\* What the swapchain operations leave alone
nonSwapVars == <<devVars, infoVars, bindVars, memVars, laterVars, demoVars>>

\* What the bindless manager operations leave alone
nonBindVars == <<devVars, infoVars, swapVars, memVars, laterVars, demoVars>>

\* What the memory-type search leaves alone
nonMemVars == <<devVars, infoVars, swapVars, bindVars, laterVars, demoVars>>

\* What the staged upload leaves alone
nonUploadVars == <<coreVars, windowVars, instVars, passVars, fmtVars, demoVars>>

\* What the window operations leave alone
nonWindowVars == <<coreVars, uploadVars, instVars, passVars, fmtVars, demoVars>>

\* What the instance construction leaves alone
nonInstVars == <<coreVars, uploadVars, windowVars, passVars, fmtVars, demoVars>>

\* What the render pass operations leave alone
nonPassVars == <<coreVars, uploadVars, windowVars, instVars, fmtVars, demoVars>>

\* What the family search and the VulkanContext leave alone
nonSearchVars == <<queue_family_info_list, pc, device_created, queues, queue_map, sp_family,
                   permutation, sp_iter, lookups, infoVars, swapVars, bindVars, memVars,
                   laterVars, textureVars, frameVars>>

\* What the texture operations leave alone
nonTextureVars == <<coreVars, laterVars, searchVars, frameVars>>

\* What the demo frame leaves alone
nonFrameVars == <<coreVars, laterVars, searchVars, textureVars>>

\* What the surface format selection leaves alone
nonFmtVars == <<coreVars, uploadVars, windowVars, instVars, passVars, demoVars>>

----------------------------------------------------------------------------
(* Bounds of the model *)

\* Largest number of queues of one family in a request list.
MaxQueues == 2
\* Largest number of families in a request list.
MaxFamilies == 2
\* Iterations of one family's permutation loop that the model follows.
MaxIterations == 7
\* Number of getQueues calls followed after construction.
MaxLookups == 2
\* Number of add operations on a request list.
MaxAdds == 2
\* Largest `count` argument of an add operation.
MaxCount == 3
\* Number of swapchain resizes.
MaxResizes == 2
\* Number of storage buffers created through the bindless manager.
MaxCreates == 5
\* Largest number of shared owners of one indexed resource.
MaxOwners == 2

\* Largest memoryTypeCount the driver reports
MaxMemoryTypes == 3

\* Largest element count of a buffer and of an uploaded span
MaxElements == 2

\* Largest number of windows constructed
MaxWindows == 2

\* Largest number of attachment descriptions added to a render pass
MaxAttachments == 2

\* Largest number of target-attachment groups passed to create
MaxGroups == 2

\* Largest number of image views in one target-attachment group
MaxGroupViews == 2

\* Largest number of surface formats the driver reports
MaxFormats == 3

\* Largest number of queue families of the driver in the family search
MaxSearchFamilies == 3

\* Largest number of setImage calls on the texture
MaxSetImages == 2

\* Largest number of timeouts of the wait on the draw fence that are followed
MaxTimeouts == 3

\* Largest number of polls of the event loop that are followed
MaxPolls == 2

\* Number of images of the demo's swapchain
MaxFrameImages == 2

----------------------------------------------------------------------------
(* Flags *)

\* vk::QueueFlagBits: eGraphics = 1, eCompute = 2, eTransfer = 4
QueueFlagBits == {1, 2, 4}
Graphics == {1}
Compute == {2}
Transfer == {4}

\* The bit values in ascending bit order, as the loop over `bit` meets them.
BitOrder == <<1, 2, 4>>

\* size_t arithmetic is modulo 2^64; the model keeps the wrap-around with a
\* modulus TLC's integers can hold.
SizeModulus == 2^30

\* Queue priorities (float): below the range, its two ends, above the range.
Priorities == {-1, 0, 1, 2}

Pow2(n) == 2^n

\* util::separate_flags
SeparateFlags(flags) == SelectSeq(BitOrder, LAMBDA b : b \in flags)

\* `permutation & (size_t{1} << idx)`
BitSet(value, idx) == (value \div Pow2(idx)) % 2 = 1

----------------------------------------------------------------------------
(* debug::validate_queues *)

\* `queue_family_properties[family.family_idx]`: the element, or whatever the
\* out-of-range read yields.
PropertyAt(props, family_idx, garbage) ==
    IF family_idx < Len(props) THEN props[family_idx + 1] ELSE garbage

PriorityInvalidMut(priority) == priority > 1
PriorityInvalid(priority) == (priority < 0) \/ (priority > 1)

FamilyInvalid(family, props, garbage) ==
    LET property == PropertyAt(props, family.family_idx, garbage) IN
    \/ family.family_idx >= Len(props)
    \/ Len(family.queues) = 0
    \/ Len(family.queues) > property.queueCount
    \/ (property.queueFlags \cap family.flags) # family.flags
    \/ \E idx \in 1..Len(family.queues) : PriorityInvalid(family.queues[idx])

\* TRUE when validate_queues throws.
ValidateQueuesThrows(list, props, garbage) ==
    \/ Len(props) = 0
    \/ \E i \in 1..Len(list) : FamilyInvalid(list[i], props, garbage)

----------------------------------------------------------------------------
(* LogicalDevice: the capability -> queue map *)

\* std::unordered_map::operator[]: a missing key is inserted with an empty list
MapIndex(map, key) ==
    IF key \in DOMAIN map THEN map ELSE map @@ (key :> <<>>)

MapPushBackMut(map, key, q) ==
    [MapIndex(map, key) EXCEPT ![key] = <<q>> \o @]
\* queue_map[key].push_back(q)
MapPushBack(map, key, q) ==
    [MapIndex(map, key) EXCEPT ![key] = Append(@, q)]

\* getQueues(flag): the map after the lookup
GetQueuesMap(map, flag) == MapIndex(map, flag)

\* getQueue(flag, queue_idx): getQueues(flag).at(queue_idx); 0 when at() throws
GetQueue(map, flag, queue_idx) ==
    LET list == MapIndex(map, flag)[flag] IN
    IF queue_idx < Len(list) THEN list[queue_idx + 1] ELSE 0

\* First pass, one family: a Queue object per queue, pushed to queue_map[flags]
RECURSIVE FirstPassFamily(_, _, _)
FirstPassFamily(state, family, queue_idx) ==
    IF queue_idx >= Len(family.queues) THEN state
    ELSE LET queue == [family_index |-> family.family_idx, queue_index |-> queue_idx]
             qs == Append(state.queues, queue)
         IN FirstPassFamily([queues |-> qs,
                             queue_map |-> MapPushBack(state.queue_map, family.flags, Len(qs))],
                            family, queue_idx + 1)

\* First pass: every family of the list, in list order
RECURSIVE FirstPass(_, _, _)
FirstPass(state, list, i) ==
    IF i > Len(list) THEN state
    ELSE FirstPass(FirstPassFamily(state, list[i], 0), list, i + 1)

\* `(1 << separated_flags.size()) - 2` converted to size_t
PermutationStart(flags) == (Pow2(Len(SeparateFlags(flags))) - 2) % SizeModulus

PermutationMaskMut(flags, perm) ==
    LET separated_flags == SeparateFlags(flags) IN
    {BitOrder[idx + 1] : idx \in {i \in 0..(Len(separated_flags) - 1) : BitSet(perm, i)}}
\* The mask built from the bits of `permutation`
PermutationMask(flags, perm) ==
    LET separated_flags == SeparateFlags(flags) IN
    {separated_flags[idx + 1] : idx \in {i \in 0..(Len(separated_flags) - 1) : BitSet(perm, i)}}

\* The queue the second pass maps for (family, queue_idx)
SecondPassQueue(map, list, fam, queue_idx) == GetQueue(map, list[fam].flags, queue_idx)

\* The inner loop over queue_idx: push the family's queues to queue_map[mask]
RECURSIVE SecondPassPush(_, _, _, _, _)
SecondPassPush(map, list, fam, mask, queue_idx) ==
    IF queue_idx >= Len(list[fam].queues) THEN map
    ELSE SecondPassPush(
            MapPushBack(MapIndex(map, list[fam].flags), mask,
                        SecondPassQueue(map, list, fam, queue_idx)),
            list, fam, mask, queue_idx + 1)

----------------------------------------------------------------------------
(* Inputs of the logical device specification *)

\* A driver with two families of different flags, and one with two families
\* of the same flags.
DeviceProfiles ==
    { << [queueFlags |-> {1, 2, 4}, queueCount |-> 2], [queueFlags |-> {2}, queueCount |-> 1] >>,
      << [queueFlags |-> {1, 2}, queueCount |-> 1], [queueFlags |-> {1, 2}, queueCount |-> 1] >> }

\* n queues of priority p
UniformQueues(n, p) == [i \in 1..n |-> p]

\* Request records for a driver with n families, every queue of priority p;
\* index n is out of range.
FamilyInfos(n, p) ==
    [family_idx : 0..n, flags : SUBSET QueueFlagBits,
     queues : {UniformQueues(c, p) : c \in 0..MaxQueues}]

\* Request lists with one entry per family index at most.
RequestLists(n, p) ==
    UNION {{l \in [1..len -> FamilyInfos(n, p)] :
               \A i, j \in 1..len : i # j => l[i].family_idx # l[j].family_idx}
           : len \in 0..MaxFamilies}

\* What an out-of-range read of the property vector may yield.
GarbageProperties == [queueFlags : {{}, QueueFlagBits}, queueCount : {0, MaxQueues + 1}]

HasOutOfRange(list, props) == \E i \in 1..Len(list) : list[i].family_idx >= Len(props)

----------------------------------------------------------------------------
(* LogicalDevice::LogicalDevice, step by step *)

\* debug::validateQueues at the head of the constructor
Validate ==
    /\ pc = "start"
    /\ \E garbage \in IF HasOutOfRange(queue_family_info_list, properties)
                      THEN GarbageProperties
                      ELSE {[queueFlags |-> {}, queueCount |-> 0]} :
          pc' = IF ValidateQueuesThrows(queue_family_info_list, properties, garbage)
                THEN "failed" ELSE "validated"
    /\ UNCHANGED <<properties, queue_family_info_list, device_created, queues,
                   queue_map, sp_family, permutation, sp_iter, lookups>>
    /\ UNCHANGED nonDevVars

\* The queue create infos and the driver device
CreateDevice ==
    /\ pc = "validated"
    /\ device_created' = TRUE
    /\ pc' = "created"
    /\ UNCHANGED <<properties, queue_family_info_list, queues, queue_map,
                   sp_family, permutation, sp_iter, lookups>>
    /\ UNCHANGED nonDevVars

\* The first queue pass, and the entry into the second
FirstQueuePass ==
    /\ pc = "created"
    /\ LET state == FirstPass([queues |-> <<>>, queue_map |-> <<>>], queue_family_info_list, 1) IN
          /\ queues' = state.queues
          /\ queue_map' = state.queue_map
    /\ IF Len(queue_family_info_list) = 0
       THEN /\ pc' = "done"
            /\ UNCHANGED <<sp_family, permutation>>
       ELSE /\ pc' = "second_pass"
            /\ sp_family' = 1
            /\ permutation' = PermutationStart(queue_family_info_list[1].flags)
    /\ sp_iter' = 0
    /\ UNCHANGED <<properties, queue_family_info_list, device_created, lookups>>
    /\ UNCHANGED nonDevVars

\* One iteration of the permutation loop of the second pass
SecondPassPermutation ==
    /\ pc = "second_pass"
    /\ permutation # 0
    /\ sp_iter < MaxIterations
    /\ LET family == queue_family_info_list[sp_family]
           mask == PermutationMask(family.flags, permutation)
       IN queue_map' = SecondPassPush(queue_map, queue_family_info_list, sp_family, mask, 0)
    /\ permutation' = permutation - 1
    /\ sp_iter' = sp_iter + 1
    /\ UNCHANGED <<properties, queue_family_info_list, pc, device_created, queues,
                   sp_family, lookups>>
    /\ UNCHANGED nonDevVars

\* The permutation loop of one family ends: next family, or the constructor returns
SecondPassNextFamily ==
    /\ pc = "second_pass"
    /\ permutation = 0
    /\ IF sp_family = Len(queue_family_info_list)
       THEN /\ pc' = "done"
            /\ UNCHANGED <<sp_family, permutation>>
       ELSE /\ pc' = "second_pass"
            /\ sp_family' = sp_family + 1
            /\ permutation' = PermutationStart(queue_family_info_list[sp_family + 1].flags)
    /\ sp_iter' = 0
    /\ UNCHANGED <<properties, queue_family_info_list, device_created, queues,
                   queue_map, lookups>>
    /\ UNCHANGED nonDevVars

\* getQueues(flag) on the constructed device
GetQueues ==
    /\ pc = "done"
    /\ lookups < MaxLookups
    /\ \E flag \in SUBSET QueueFlagBits :
          queue_map' = GetQueuesMap(queue_map, flag)
    /\ lookups' = lookups + 1
    /\ UNCHANGED <<properties, queue_family_info_list, pc, device_created, queues,
                   sp_family, permutation, sp_iter>>
    /\ UNCHANGED nonDevVars

----------------------------------------------------------------------------
(* LogicalDeviceInfo: building the request list *)

\* uint32_t arithmetic is modulo 2^32; the model keeps the wrap-around with a
\* modulus TLC's integers can hold.
UintModulus == 2^30

\* The nullopt of std::optional<uint32_t>
NoIndex == -1

\* detail::index_of: C++ index of the first element from position i on that
\* passes the test, or nullopt; tests[k] is the outcome of the test on element k
RECURSIVE IndexOf(_, _)
IndexOf(tests, i) ==
    IF i > Len(tests) THEN NoIndex
    ELSE IF tests[i] THEN i - 1
    ELSE IndexOf(tests, i + 1)

\* util::find_queue_family_index_strong
FindQueueFamilyIndexStrong(props, flags) ==
    IndexOf([k \in 1..Len(props) |-> props[k].queueFlags = flags], 1)

\* util::find_queue_family_index_weak
FindQueueFamilyIndexWeak(props, flags) ==
    IndexOf([k \in 1..Len(props) |-> (props[k].queueFlags \cap flags) = flags], 1)

\* Position in the list of the first record of family_idx, or 0
RECURSIVE FirstRecordOf(_, _, _)
FirstRecordOf(list, family_idx, i) ==
    IF i > Len(list) THEN 0
    ELSE IF list[i].family_idx = family_idx THEN i
    ELSE FirstRecordOf(list, family_idx, i + 1)

\* The subtraction left out: every family counts as wholly available
AvailableCountMut(props, list, family_idx) == props[family_idx + 1].queueCount

\* `prop.queueCount -= family_info.queues.size()` for the first record of the family
AvailableCount(props, list, family_idx) ==
    LET pos == FirstRecordOf(list, family_idx, 1)
        queueCount == props[family_idx + 1].queueCount
    IN IF pos = 0 THEN queueCount
       ELSE (queueCount - Len(list[pos].queues)) % UintModulus

\* available_props of addQueues(flags, ...)
AvailableProps(props, list) ==
    [i \in 1..Len(props) |->
        [queueFlags |-> props[i].queueFlags,
         queueCount |-> AvailableCount(props, list, i - 1)]]

\* `count` times emplace_back(priority)
RECURSIVE EmplaceQueues(_, _, _)
EmplaceQueues(queue_list, priority, count) ==
    IF count = 0 THEN queue_list
    ELSE EmplaceQueues(Append(queue_list, priority), priority, count - 1)

\* addQueues(uint32_t family_idx, float priority, uint32_t count): the list after
AddQueuesIndex(list, props, family_idx, priority, count) ==
    LET pos == FirstRecordOf(list, family_idx, 1) IN
    IF pos # 0
    THEN [list EXCEPT ![pos].queues = EmplaceQueues(@, priority, count)]
    ELSE Append(list, [family_idx |-> family_idx,
                       flags |-> props[family_idx + 1].queueFlags,
                       queues |-> EmplaceQueues(<<>>, priority, count)])

\* addQueues(vk::QueueFlags flags, float priority, uint32_t count):
\* the list after, the value returned and the family chosen
AddQueuesFlags(list, props, flags, priority, count) ==
    LET available_props == AvailableProps(props, list)
        exact_idx == FindQueueFamilyIndexStrong(available_props, flags)
        weak_idx == FindQueueFamilyIndexWeak(available_props, flags)
    IN IF exact_idx # NoIndex /\ available_props[exact_idx + 1].queueCount >= count
       THEN [list |-> AddQueuesIndex(list, props, exact_idx, priority, count),
             result |-> TRUE, family |-> exact_idx]
       ELSE IF weak_idx # NoIndex /\ available_props[weak_idx + 1].queueCount >= count
       THEN [list |-> AddQueuesIndex(list, props, weak_idx, priority, count),
             result |-> TRUE, family |-> weak_idx]
       ELSE [list |-> list, result |-> FALSE, family |-> NoIndex]

\* addAllQueues(float priority): the list after
RECURSIVE AddAllQueuesFrom(_, _, _, _)
AddAllQueuesFrom(list, props, priority, family_idx) ==
    IF family_idx >= Len(props) THEN list
    ELSE AddAllQueuesFrom(
            AddQueuesIndex(list, props, family_idx, priority, props[family_idx + 1].queueCount),
            props, priority, family_idx + 1)

AddAllQueues(props, priority) == AddAllQueuesFrom(<<>>, props, priority, 0)

\* The device of scenarios S1 and S2, and one with two families of the same flags.
InfoDeviceProfiles ==
    { << [queueFlags |-> {1, 2, 4}, queueCount |-> 4],
         [queueFlags |-> {2}, queueCount |-> 2],
         [queueFlags |-> {4}, queueCount |-> 2] >>,
      << [queueFlags |-> {1, 2}, queueCount |-> 1],
         [queueFlags |-> {1, 2}, queueCount |-> 2] >> }

\* Priorities passed to the add operations
InfoPriorities == {0, 1}

\* info.addQueues(flags, priority, count)
AddByFlags ==
    /\ pc = "info"
    /\ adds < MaxAdds
    /\ \E flags \in SUBSET QueueFlagBits, priority \in InfoPriorities, count \in 0..MaxCount :
          LET r == AddQueuesFlags(queue_family_info_list, properties, flags, priority, count) IN
          /\ queue_family_info_list' = r.list
          /\ last_add' = [kind |-> "flags", flags |-> flags, priority |-> priority,
                          count |-> count, before |-> queue_family_info_list,
                          result |-> r.result, family |-> r.family]
    /\ adds' = adds + 1
    /\ UNCHANGED <<properties, nonInfoVars>>

\* info.addQueues(family_idx, priority, count), family_idx a family of the driver
AddByIndex ==
    /\ pc = "info"
    /\ adds < MaxAdds
    /\ \E family_idx \in 0..(Len(properties) - 1), priority \in InfoPriorities,
          count \in 0..MaxCount :
          /\ queue_family_info_list' =
                 AddQueuesIndex(queue_family_info_list, properties, family_idx, priority, count)
          /\ last_add' = [kind |-> "index", family |-> family_idx, priority |-> priority,
                          count |-> count, before |-> queue_family_info_list]
    /\ adds' = adds + 1
    /\ UNCHANGED <<properties, nonInfoVars>>

\* info.addAllQueues(priority)
AddAll ==
    /\ pc = "info"
    /\ adds < MaxAdds
    /\ \E priority \in InfoPriorities :
          /\ queue_family_info_list' = AddAllQueues(properties, priority)
          /\ last_add' = [kind |-> "all", priority |-> priority,
                          before |-> queue_family_info_list]
    /\ adds' = adds + 1
    /\ UNCHANGED <<properties, nonInfoVars>>

----------------------------------------------------------------------------
(* vkw::swapchain *)

\* std::numeric_limits<uint32_t>::max(), within TLC's integers
U32Max == 2^30 - 1

\* The members of a default-constructed swapchain
NoSwapchain ==
    [configured |-> FALSE, format |-> "Undefined", size |-> <<0, 0>>, vsync |-> FALSE,
     shared_queues |-> <<>>, vk_swapchain |-> 0, images |-> <<>>, image_views |-> <<>>]

\* What the surface reports at a build
SurfaceProfiles ==
    { [minImageCount |-> 2, currentExtent |-> <<U32Max, U32Max>>,
       minImageExtent |-> <<640, 480>>, maxImageExtent |-> <<3840, 2160>>,
       supportedTransforms |-> {"Identity"}, currentTransform |-> "Identity",
       supportedCompositeAlpha |-> {"Opaque"}, presentModes |-> {"Fifo", "Mailbox"}],
      [minImageCount |-> 3, currentExtent |-> <<800, 600>>,
       minImageExtent |-> <<800, 600>>, maxImageExtent |-> <<800, 600>>,
       supportedTransforms |-> {"Rotate90"}, currentTransform |-> "Rotate90",
       supportedCompositeAlpha |-> {"PostMultiplied", "Inherit"},
       presentModes |-> {"Fifo", "Immediate"}] }

SurfaceFormats == {"B8G8R8A8Srgb", "R8G8B8A8Unorm"}
RequestedSizes == {<<320, 240>>, <<1024, 768>>, <<4096, 4096>>}
SharedQueueLists == {<<>>, <<0>>, <<0, 0>>, <<0, 1>>}

\* select_present_mode
SelectPresentMode(modes) ==
    IF "Mailbox" \in modes THEN "Mailbox"
    ELSE IF "Immediate" \in modes THEN "Immediate"
    ELSE "Fifo"

\* No clamping: the value as requested
ClampMut(v, lo, hi) == v

\* std::clamp(v, lo, hi)
Clamp(v, lo, hi) == IF v < lo THEN lo ELSE IF hi < v THEN hi ELSE v

\* select_swapchain_extent
SelectSwapchainExtent(caps, requested_size) ==
    IF caps.currentExtent[1] = U32Max
    THEN << Clamp(requested_size[1], caps.minImageExtent[1], caps.maxImageExtent[1]),
            Clamp(requested_size[2], caps.minImageExtent[2], caps.maxImageExtent[2]) >>
    ELSE caps.currentExtent

\* select_transform
SelectTransform(caps) ==
    IF "Identity" \in caps.supportedTransforms THEN "Identity" ELSE caps.currentTransform

\* select_composite_alpha
SelectCompositeAlpha(caps) ==
    IF "PreMultiplied" \in caps.supportedCompositeAlpha THEN "PreMultiplied"
    ELSE IF "PostMultiplied" \in caps.supportedCompositeAlpha THEN "PostMultiplied"
    ELSE IF "Inherit" \in caps.supportedCompositeAlpha THEN "Inherit"
    ELSE "Opaque"

\* The build passes a null handle as oldSwapchain
OldSwapchainMut(sw) == 0

\* vk_swapchain ? **vk_swapchain : vk::SwapchainKHR{}
OldSwapchain(sw) == IF sw.vk_swapchain # 0 THEN sw.vk_swapchain ELSE 0

\* The vk::SwapchainCreateInfoKHR of create_impl
SwapchainCreateInfo(sw, caps) ==
    [minImageCount |-> caps.minImageCount,
     imageFormat |-> sw.format,
     imageExtent |-> SelectSwapchainExtent(caps, sw.size),
     imageSharingMode |-> IF Len(sw.shared_queues) # 0 THEN "Concurrent" ELSE "Exclusive",
     queueFamilyIndices |-> IF Len(sw.shared_queues) # 0 THEN sw.shared_queues ELSE <<>>,
     preTransform |-> SelectTransform(caps),
     compositeAlpha |-> SelectCompositeAlpha(caps),
     presentMode |-> IF sw.vsync THEN "Fifo" ELSE SelectPresentMode(caps.presentModes),
     oldSwapchain |-> OldSwapchain(sw)]

\* vk_swapchain->getImages(): the images of driver swapchain `handle`
SwapchainImages(handle, n) == [i \in 1..n |-> [swapchain |-> handle, index |-> i - 1]]

\* The image view create_impl builds over an image
ImageView(sw, image) ==
    [image |-> image, viewType |-> "e2D", format |-> sw.format, aspectMask |-> "Color"]

\* The images vector after the copy through back_inserter
ImagesAfterBuild(old_images, swap_images) == old_images \o swap_images

\* create_impl: the swapchain object after the build; `handle` is the new driver swapchain
CreateImpl(sw, caps, handle) ==
    LET swap_images == SwapchainImages(handle, caps.minImageCount)
        all_images == ImagesAfterBuild(sw.images, swap_images)
    IN [sw EXCEPT !.vk_swapchain = handle,
                  !.images = all_images,
                  !.image_views = @ \o [i \in 1..Len(all_images) |-> ImageView(sw, all_images[i])]]

\* The driver calls of create_impl, in order
CreateImplCalls(sw, caps) ==
    << [call |-> "getSurfaceCapabilitiesKHR", caps |-> caps],
       [call |-> "createSwapchainKHR", info |-> SwapchainCreateInfo(sw, caps)] >>

\* The driver swapchains created so far
CreatedSwapchains == Cardinality({i \in 1..Len(driver_calls) : driver_calls[i].call = "createSwapchainKHR"})

\* swapchain.create(device, surface, format, usage, size, vsync, shared_queues)
SwapchainCreate ==
    /\ ~swapchain.configured
    /\ \E format \in SurfaceFormats, size \in RequestedSizes, vsync \in BOOLEAN,
          shared_queues \in SharedQueueLists :
          swapchain' = [swapchain EXCEPT !.configured = TRUE, !.format = format,
                                         !.size = size, !.vsync = vsync,
                                         !.shared_queues = shared_queues]
    /\ UNCHANGED <<driver_calls, resizes, nonSwapVars>>

\* swapchain.create_impl(): the first build
SwapchainBuild ==
    /\ swapchain.configured
    /\ swapchain.vk_swapchain = 0
    /\ \E caps \in SurfaceProfiles :
          LET handle == CreatedSwapchains + 1 IN
          /\ driver_calls' = driver_calls \o CreateImplCalls(swapchain, caps)
          /\ swapchain' = CreateImpl(swapchain, caps, handle)
    /\ UNCHANGED <<resizes, nonSwapVars>>

\* swapchain.resize(physical_device, new_size)
SwapchainResize ==
    /\ swapchain.configured
    /\ swapchain.vk_swapchain # 0
    /\ resizes < MaxResizes
    /\ \E new_size \in RequestedSizes, caps \in SurfaceProfiles :
          LET handle == CreatedSwapchains + 1
              resized == [swapchain EXCEPT !.size = new_size]
          IN /\ driver_calls' = driver_calls \o << [call |-> "waitIdle"] >>
                                                 \o CreateImplCalls(resized, caps)
             /\ swapchain' = CreateImpl(resized, caps, handle)
    /\ resizes' = resizes + 1
    /\ UNCHANGED nonSwapVars

----------------------------------------------------------------------------
(* utils.handle_table: free (index, generation) pairs *)

\* handle64::invalid_handle()
InvalidHandle == [index |-> -1, generation |-> -1]

\* An empty handle_table: the generation of every index handed out so far,
\* and the indices that are free again
EmptyTable == [generations |-> <<>>, free |-> {}]

\* The indices create_handle may hand out: a released one, else the next new one
FreeIndices(table) ==
    IF table.free # {} THEN table.free ELSE {Len(table.generations)}

\* create_handle, handing out `index`: the table after
CreateHandleTable(table, index) ==
    IF index \in table.free
    THEN [table EXCEPT !.free = @ \ {index}]
    ELSE [table EXCEPT !.generations = Append(@, 0)]

\* create_handle, handing out `index`: the handle returned
CreateHandle(table, index) ==
    [index |-> index,
     generation |-> IF index \in table.free THEN table.generations[index + 1] ELSE 0]

\* valid_handle: the handle is the live handle of its index
ValidHandle(table, handle) ==
    /\ handle.index >= 0
    /\ handle.index < Len(table.generations)
    /\ handle.index \notin table.free
    /\ table.generations[handle.index + 1] = handle.generation

\* release_handle: the index is free again, with the next generation
ReleaseHandle(table, handle) ==
    IF ValidHandle(table, handle)
    THEN [generations |-> [table.generations EXCEPT ![handle.index + 1] = @ + 1],
          free |-> table.free \cup {handle.index}]
    ELSE table

\* Number of live handles of a table
LiveHandles(table) == Len(table.generations) - Cardinality(table.free)

----------------------------------------------------------------------------
(* bindless_descriptor_manager and indexed_shader_resource *)

\* descriptor_index::storage_buffer
StorageBufferBinding == 0

\* descriptor_sizes::storage_buffers the manager is created with
StorageBufferCapacities == {4, 6}

\* No manager created yet
NoManager == [created |-> FALSE, user_refs |-> 0, storage_buffers |-> 0]

\* The map entries, were they std::shared_ptr
MapReferenceMut == "shared"

\* The kind of reference a value of the map `buffers` is: std::weak_ptr
MapReference == "weak"

\* use_count() of a resource: the owners outside the manager, and the entry of
\* the map `buffers` if it owns
StrongCount(r) ==
    resources[r].owners +
        (IF MapReference = "shared" /\ \E h \in DOMAIN buffers : buffers[h] = r
         THEN 1 ELSE 0)

\* Position of the resources that are alive
LiveResources == {r \in 1..Len(resources) : StrongCount(r) > 0}

\* use_count() of the manager: the user's pointer, and the descriptor_manager
\* member of every live resource that has one set
ManagerOwners ==
    manager.user_refs +
        Cardinality({r \in LiveResources : resources[r].descriptor_manager})

\* The manager object exists: somebody holds a shared_ptr to it
ManagerAlive == manager.created /\ ManagerOwners > 0

StoredHandleMut(handle) == InvalidHandle
\* result->set_handle(h): the handle the resource stores
StoredHandle(handle) == handle

WriteArrayOffsetMut(handle) == 0
\* .array_offset of the write_buffer_set of create_storage_buffer
WriteArrayOffset(handle) == handle.index

RemoveMut(table, resource) == table
\* remove(buffer): the handle table after
Remove(table, resource) == ReleaseHandle(table, resource.handle)

\* ~indexed_shader_resource: the handle table after
DestroyResource(table, resource) ==
    IF resource.descriptor_manager THEN Remove(table, resource) ELSE table

\* descriptor_set->update(write_buffer_set{binding, array_offset, {buffer}})
WriteDescriptor(set, binding, array_offset, resource) ==
    LET old == IF binding \in DOMAIN set THEN set[binding] ELSE <<>>
        new == [o \in (DOMAIN old) \cup {array_offset} |->
                   IF o = array_offset THEN resource ELSE old[o]]
    IN [b \in (DOMAIN set) \cup {binding} |-> IF b = binding THEN new ELSE set[b]]

\* buffers[handle] = result
RecordWeak(map, handle, resource) ==
    [h \in (DOMAIN map) \cup {handle} |-> IF h = handle THEN resource ELSE map[h]]

\* bindless_descriptor_manager::create(logical_device, sizes)
ManagerCreate ==
    /\ ~manager.created
    /\ \E capacity \in StorageBufferCapacities :
          manager' = [created |-> TRUE, user_refs |-> 1, storage_buffers |-> capacity]
    /\ UNCHANGED <<buffer_table, buffers, descriptor_set, resources, nonBindVars>>

\* manager->create_storage_buffer<T>(...)
CreateStorageBuffer ==
    /\ ManagerAlive
    /\ Len(resources) < MaxCreates
    /\ \E index \in FreeIndices(buffer_table) :
          LET handle == StoredHandle(CreateHandle(buffer_table, index))
              id == Len(resources) + 1
              array_offset == WriteArrayOffset(handle)
          IN /\ buffer_table' = CreateHandleTable(buffer_table, index)
             /\ buffers' = RecordWeak(buffers, handle, id)
             /\ descriptor_set' =
                    WriteDescriptor(descriptor_set, StorageBufferBinding, array_offset, id)
             /\ resources' = Append(resources,
                    [handle |-> handle, descriptor_manager |-> TRUE, owners |-> 1,
                     write |-> [binding |-> StorageBufferBinding, array_offset |-> array_offset],
                     dead_before |-> (1..Len(resources)) \ LiveResources])
    /\ UNCHANGED <<manager, nonBindVars>>

\* A copy of the shared_ptr to a resource is made
ShareResource ==
    /\ \E r \in LiveResources :
          /\ resources[r].owners < MaxOwners
          /\ resources' = [resources EXCEPT ![r].owners = @ + 1]
    /\ UNCHANGED <<manager, buffer_table, buffers, descriptor_set, nonBindVars>>

\* A shared_ptr to a resource is dropped; the last one destroys the resource
DropResource ==
    /\ \E r \in LiveResources :
          /\ resources[r].owners > 0
          /\ resources' = [resources EXCEPT ![r].owners = @ - 1]
          /\ buffer_table' = IF StrongCount(r) = 1
                              THEN DestroyResource(buffer_table, resources[r])
                              ELSE buffer_table
    /\ UNCHANGED <<manager, buffers, descriptor_set, nonBindVars>>

\* The user drops the pointer to the manager
ManagerDrop ==
    /\ manager.created
    /\ manager.user_refs > 0
    /\ manager' = [manager EXCEPT !.user_refs = 0]
    /\ UNCHANGED <<buffer_table, buffers, descriptor_set, resources, nonBindVars>>

----------------------------------------------------------------------------
(* buffer<T>::find_memory_type and findMemoryType *)

\* vk::MemoryPropertyFlagBits: eDeviceLocal and eHostVisible
MemoryPropertyFlagBits == {1, 2}

\* No search has run yet
NoCall == [by |-> "none"]

\* The condition of the loop body, mutated: the type bit is not tested
MemoryTypeMatchesMut(memory_type_bits, flags, wanted) ==
    (flags \cap wanted) = wanted

\* (memory_type_bits & 1) && ((propertyFlags & properties) == properties)
MemoryTypeMatches(memory_type_bits, flags, wanted) ==
    /\ memory_type_bits % 2 = 1
    /\ (flags \cap wanted) = wanted

\* The for loop from index i on: the value of type_index after it
RECURSIVE FindMemoryTypeLoop(_, _, _, _)
FindMemoryTypeLoop(memory_types, memory_type_bits, wanted, i) ==
    IF ~(i < Len(memory_types))
    THEN U32Max
    ELSE IF MemoryTypeMatches(memory_type_bits, memory_types[i + 1], wanted)
         THEN i
         ELSE FindMemoryTypeLoop(memory_types, memory_type_bits \div 2, wanted, i + 1)

\* find_memory_type: the assertion fails when type_index is still the maximum
FindMemoryType(memory_types, memory_type_bits, wanted) ==
    LET type_index == FindMemoryTypeLoop(memory_types, memory_type_bits, wanted, 0)
    IN  [failed |-> ~(type_index # U32Max), type_index |-> type_index]

\* Every list of at most n memory types
MemoryTypeLists(n) ==
    UNION {[1..k -> SUBSET MemoryPropertyFlagBits] : k \in 0..n}

\* Type bits, one bit more than the driver has types
MemoryTypeBits(n) == 0..(Pow2(n + 1) - 1)

\* buffer<T>::find_memory_type(memory_properties, memory_type_bits, properties)
BufferFindMemoryType ==
    /\ pc = "memory"
    /\ memory_call = NoCall
    /\ LET r == FindMemoryType(memory_properties, memory_request.type_bits,
                               memory_request.wanted)
       IN  memory_call' = [by |-> "buffer", failed |-> r.failed,
                           type_index |-> r.type_index]
    /\ UNCHANGED <<memory_properties, memory_request>>
    /\ UNCHANGED nonMemVars

\* findMemoryType(memoryProperties, typeBits, requirementsMask)
UtilsFindMemoryType ==
    /\ pc = "memory"
    /\ memory_call = NoCall
    /\ LET r == FindMemoryType(memory_properties, memory_request.type_bits,
                               memory_request.wanted)
       IN  memory_call' = [by |-> "utils", failed |-> r.failed,
                           type_index |-> r.type_index]
    /\ UNCHANGED <<memory_properties, memory_request>>
    /\ UNCHANGED nonMemVars

----------------------------------------------------------------------------
(* buffer<T>::upload and Buffer<T>::upload through a staging buffer *)

\* vk::MemoryPropertyFlagBits: eDeviceLocal, eHostVisible, eHostCoherent
UploadPropertyFlagBits == {1, 2, 4}
DeviceLocalBit == 1
HostVisibleBit == 2
HostCoherentBit == 4

\* vk::BufferUsageFlagBits of the model
BufferUsageFlagBits == {"TransferSrc", "TransferDst"}

\* The values of an element of type T
ElementValues == {0, 1}

\* sizeof(T)
ElementSize == 4

\* A buffer<T> after construction; its device memory holds whatever the
\* allocation held (`garbage`, one value per element)
NewBuffer(count, usage, property_flags, garbage) ==
    [count |-> count, usage |-> usage, property_flags |-> property_flags, memory |-> garbage]

\* The assertion of create_buffer / Buffer::Buffer
CountAsserted(count) == count > 0

\* The assertions of upload(std::span<const T>) on a host-visible buffer
HostUploadAsserted(buf, data) ==
    /\ HostCoherentBit \in buf.property_flags
    /\ HostVisibleBit \in buf.property_flags
    /\ Len(data) <= buf.count

\* upload(std::span<const T>): the mapped memory after the memcpy
HostUpload(buf, data) ==
    [buf EXCEPT !.memory = [i \in 1..Len(buf.memory) |->
                               IF i <= Len(data) THEN data[i] ELSE buf.memory[i]]]

\* The assertions of the staged upload
StagedUploadAsserted(buf, data) ==
    /\ "TransferDst" \in buf.usage
    /\ DeviceLocalBit \in buf.property_flags
    /\ Len(data) <= buf.count

\* The command buffer recorded by the staged upload
UploadCommands(data_size) ==
    << [cmd |-> "begin", flags |-> "OneTimeSubmit"],
       [cmd |-> "copyBuffer", src |-> "staging_buffer", dst |-> "this",
        srcOffset |-> 0, dstOffset |-> 0, size |-> data_size],
       [cmd |-> "end"] >>

\* The calls on the queue, in order
UploadQueueCalls(data_size) ==
    << [call |-> "submit", commands |-> UploadCommands(data_size)],
       [call |-> "waitIdle"] >>

\* The device executing vk::BufferCopy{srcOffset, dstOffset, size}
CopyBuffer(src_memory, dst_memory, region) ==
    LET n == region.size \div ElementSize
        s == region.srcOffset \div ElementSize
        d == region.dstOffset \div ElementSize
    IN [i \in 1..Len(dst_memory) |->
           IF i > d /\ i <= d + n THEN src_memory[i - d + s] ELSE dst_memory[i]]

\* A staged upload that stopped at an assertion
UploadFailed(by, buf) ==
    [by |-> by, returned |-> FALSE, dst |-> buf, staging |-> <<>>, queue_calls |-> <<>>]

\* The end of both staged uploads: record, submit, wait idle
UploadThrough(by, buf, staging, data) ==
    LET data_size == Len(data) * ElementSize
        region == UploadCommands(data_size)[2]
    IN [by |-> by, returned |-> TRUE,
        dst |-> [buf EXCEPT !.memory = CopyBuffer(staging.memory, buf.memory, region)],
        staging |-> staging.memory,
        queue_calls |-> UploadQueueCalls(data_size)]

\* buffer<T>::upload(device, command_pool, queue, data); the member the code
\* names `buffer` in the copy command is read as vk_buffer
BufferStagedUpload(buf, data, garbage) ==
    IF ~StagedUploadAsserted(buf, data) THEN UploadFailed("buffer", buf)
    ELSE IF ~CountAsserted(Len(data)) THEN UploadFailed("buffer", buf)
    ELSE LET staging_buffer == NewBuffer(Len(data), {"TransferSrc"},
                                         {HostVisibleBit, HostCoherentBit}, garbage)
         IN IF ~HostUploadAsserted(staging_buffer, data) THEN UploadFailed("buffer", buf)
            ELSE UploadThrough("buffer", buf, HostUpload(staging_buffer, data), data)

\* Buffer<T>::upload(physical_device, device, command_pool, queue, data):
\* the upload of `data` is addressed to `buffer`, not to staging_buffer,
\* whose memory stays as allocated
UtilsStagedUpload(buf, data, garbage) ==
    IF ~StagedUploadAsserted(buf, data) THEN UploadFailed("utils", buf)
    ELSE IF ~CountAsserted(Len(data)) THEN UploadFailed("utils", buf)
    ELSE LET staging_buffer == NewBuffer(Len(data), {"TransferSrc"},
                                         {HostVisibleBit, HostCoherentBit}, garbage)
         IN UploadThrough("utils", buf, staging_buffer, data)

\* Every content of a memory of n elements
Memories(n) == [1..n -> ElementValues]

\* Every span of at most n elements
Spans(n) == UNION {[1..k -> ElementValues] : k \in 0..n}

\* Every destination buffer of at most n elements
DestinationBuffers(n) ==
    UNION {{NewBuffer(count, usage, property_flags, memory) :
               usage \in SUBSET BufferUsageFlagBits,
               property_flags \in SUBSET UploadPropertyFlagBits,
               memory \in Memories(count)} : count \in 1..n}

\* dst_buffer.upload(device, command_pool, queue, upload_data), vkw::buffer
BufferUpload ==
    /\ pc = "upload"
    /\ upload_call = NoCall
    /\ \E garbage \in Memories(Len(upload_data)) :
          LET r == BufferStagedUpload(dst_buffer, upload_data, garbage) IN
          /\ upload_call' = r
          /\ dst_buffer' = r.dst
    /\ UNCHANGED <<upload_data, nonUploadVars>>

\* dst_buffer.upload(physical_device, device, command_pool, queue, upload_data), Buffer
UtilsUpload ==
    /\ pc = "upload"
    /\ upload_call = NoCall
    /\ \E garbage \in Memories(Len(upload_data)) :
          LET r == UtilsStagedUpload(dst_buffer, upload_data, garbage) IN
          /\ upload_call' = r
          /\ dst_buffer' = r.dst
    /\ UNCHANGED <<upload_data, nonUploadVars>>

----------------------------------------------------------------------------
(* vkw::window *)

WindowNames == {"main", "tools"}
WindowSizes == {<<800, 600>>, <<1024, 768>>}

\* What glfwCreateWindow and glfwCreateWindowSurface can answer
WindowOutcomes == {"constructed", "no_window", "no_surface"}

\* The calls of the constructor of window `id`, up to the first failure
ConstructorCalls(id, name, size, outcome) ==
    << [call |-> "glfwCreateWindow", window |-> id, name |-> name, size |-> size] >>
    \o (IF outcome = "no_window" THEN <<>>
        ELSE << [call |-> "glfwCreateWindowSurface", window |-> id] >>)

\* window::window: the members after the constructor, or what is left when it throws
ConstructedWindow(id, name, size, outcome) ==
    [name |-> name, size |-> size, state |-> outcome,
     handle |-> IF outcome = "no_window" THEN 0 ELSE id,
     surface |-> IF outcome = "constructed" THEN id ELSE 0]

\* The destructor body
DestructorBodyCalls(w) == << [call |-> "glfwDestroyWindow", window |-> w.handle] >>

\* The members destroyed after the destructor body, in reverse order of
\* declaration: surface, handle, size, name; only `surface` owns something
MemberDestructionCalls(w) ==
    IF w.surface # 0 THEN << [call |-> "vkDestroySurfaceKHR", window |-> w.surface] >>
    ELSE <<>>

\* window::~window and what the language runs after it
DestroyCalls(w) == DestructorBodyCalls(w) \o MemberDestructionCalls(w)

\* vkw::window{instance, name, size}
WindowConstruct ==
    /\ pc = "window"
    /\ Len(windows) < MaxWindows
    /\ \E name \in WindowNames, size \in WindowSizes, outcome \in WindowOutcomes :
          LET id == Len(windows) + 1 IN
          /\ windows' = Append(windows, ConstructedWindow(id, name, size, outcome))
          /\ window_calls' = window_calls \o ConstructorCalls(id, name, size, outcome)
    /\ UNCHANGED nonWindowVars

\* A constructed window goes out of scope
WindowDestroy ==
    /\ pc = "window"
    /\ \E id \in 1..Len(windows) :
          /\ windows[id].state = "constructed"
          /\ windows' = [windows EXCEPT ![id].state = "destroyed", ![id].surface = 0]
          /\ window_calls' = window_calls \o DestroyCalls(windows[id])
    /\ UNCHANGED nonWindowVars

----------------------------------------------------------------------------
(* vkw::instance: validate_instance_info; gatherLayers and gatherExtensions *)

ValidationLayer == "VK_LAYER_KHRONOS_validation"
DebugUtilsExtension == "VK_EXT_debug_utils"

\* The layers and extensions of the model
LayerNames == {ValidationLayer, "VK_LAYER_LUNARG_api_dump"}
ExtensionNames == {DebugUtilsExtension, "VK_KHR_surface"}

\* strcmp(a, b): zero when the strings are equal
StrCmp(a, b) == IF a = b THEN 0 ELSE 1

\* std::ranges::any_of(requested, strcmp(name, wanted) == 0)
HasName(requested, wanted) ==
    \E i \in 1..Len(requested) : StrCmp(requested[i], wanted) = 0

\* any_of(extension_properties, strcmp(ep.extensionName, name) == 0)
DebugUtilsExist(extension_properties) ==
    \E ep \in extension_properties : StrCmp(ep, DebugUtilsExtension) = 0

\* any_of(layer_properties, strcmp(lp.layerName, name)): the result of
\* strcmp is returned as the bool, without the comparison to zero
ValidationLayerExists(layer_properties) ==
    \E lp \in layer_properties : StrCmp(lp, ValidationLayer) # 0

\* any_of(layerProperties, strcmp(name, lp.layerName) == 0) of gatherLayers
GatherValidationLayerExists(layer_properties) ==
    \E lp \in layer_properties : StrCmp(ValidationLayer, lp) = 0

\* The assertion of gatherLayers / gatherExtensions: every name is reported
AllReported(requested, reported) ==
    \A i \in 1..Len(requested) : requested[i] \in reported

\* debug::validate_layers / debug::validate_extensions: a name that the
\* driver does not report is fatal
ValidateNamesThrows(requested, reported) ==
    \E i \in 1..Len(requested) : requested[i] \notin reported

\* instance::validate_instance_info: the lists after, and whether it failed
ValidateInstanceInfo(input) ==
    LET extensions ==
            IF input.utils /\ ~HasName(input.extensions, DebugUtilsExtension)
                           /\ DebugUtilsExist(input.extension_properties)
            THEN Append(input.extensions, DebugUtilsExtension)
            ELSE input.extensions
        layers ==
            IF input.validation /\ ~HasName(input.layers, ValidationLayer)
                                /\ ValidationLayerExists(input.layer_properties)
            THEN Append(input.layers, ValidationLayer)
            ELSE input.layers
    IN [by |-> "instance", layers |-> layers, extensions |-> extensions,
        failed |-> \/ ValidateNamesThrows(layers, input.layer_properties)
                   \/ ValidateNamesThrows(extensions, input.extension_properties)]

\* gatherLayers and gatherExtensions, as compiled without NDEBUG
GatherLists(input) ==
    LET asserted == /\ AllReported(input.layers, input.layer_properties)
                    /\ AllReported(input.extensions, input.extension_properties)
        layers ==
            IF ~HasName(input.layers, ValidationLayer)
               /\ GatherValidationLayerExists(input.layer_properties)
            THEN Append(input.layers, ValidationLayer)
            ELSE input.layers
        extensions ==
            IF ~HasName(input.extensions, DebugUtilsExtension)
               /\ DebugUtilsExist(input.extension_properties)
            THEN Append(input.extensions, DebugUtilsExtension)
            ELSE input.extensions
    IN [by |-> "utils", layers |-> IF asserted THEN layers ELSE input.layers,
        extensions |-> IF asserted THEN extensions ELSE input.extensions,
        failed |-> ~asserted]

\* Every list of distinct names, in every order
NameLists(names) ==
    {<<>>} \cup {<<a>> : a \in names} \cup {p \in names \X names : p[1] # p[2]}

\* Every configuration and every pair of driver lists
InstanceInputs ==
    [layers : NameLists(LayerNames), extensions : NameLists(ExtensionNames),
     utils : BOOLEAN, validation : BOOLEAN,
     layer_properties : SUBSET LayerNames, extension_properties : SUBSET ExtensionNames]

\* vkw::instance{app_config, instance_config, debug_config}, up to the validation
InstanceConstruct ==
    /\ pc = "instance"
    /\ instance_config = NoCall
    /\ instance_config' = ValidateInstanceInfo(instance_input)
    /\ UNCHANGED <<instance_input, nonInstVars>>

\* gatherLayers(layers, layerProperties) and gatherExtensions(extensions, extensionProperties)
GatherLayersAndExtensions ==
    /\ pc = "instance"
    /\ instance_config = NoCall
    /\ instance_input.utils
    /\ instance_input.validation
    /\ instance_config' = GatherLists(instance_input)
    /\ UNCHANGED <<instance_input, nonInstVars>>

----------------------------------------------------------------------------
(* vkw::render_pass *)

\* The image views the application owns
ImageViews == {"view_a", "view_b"}

\* The render areas passed to create
RenderAreas == {<<800, 600>>, <<1024, 768>>}

\* A render_pass after its constructor
ConstructedPass ==
    [constructed |-> TRUE, attachment_descriptions |-> 0, pass |-> [created |-> FALSE],
     framebuffers |-> <<>>, area |-> <<0, 0>>, target_attachments |-> <<>>,
     created |-> "no"]

\* Every target-attachment group of at most n views
Groups(n) == UNION {[1..k -> ImageViews] : k \in 0..n}

\* Every list of at most k groups
TargetAttachments(k, n) == UNION {[1..j -> Groups(n)] : j \in 0..k}

\* create_render_pass: the driver pass over the attachment descriptions so far
CreateRenderPass(rp) ==
    [rp EXCEPT !.pass = [created |-> TRUE, attachments |-> rp.attachment_descriptions]]

\* The vk::FramebufferCreateInfo of one group
FramebufferCreateInfo(rp, attachment, area_rect) ==
    [pass |-> rp.pass, views |-> attachment,
     width |-> area_rect[1], height |-> area_rect[2], layers |-> 1]

\* create_framebuffers: one framebuffer per group, in order
CreateFramebuffers(rp, target_attachments, area_rect) ==
    [rp EXCEPT !.area = area_rect,
               !.framebuffers = @ \o [j \in 1..Len(target_attachments) |->
                                        FramebufferCreateInfo(rp, target_attachments[j], area_rect)]]

\* The driver is handed a framebuffer whose view count differs from the
\* attachment count of the pass: it may create it or report an error
DriverMayReject(rp, target_attachments) ==
    \E j \in 1..Len(target_attachments) :
        Len(target_attachments[j]) # rp.attachment_descriptions

\* vkw::render_pass{device}
PassConstruct ==
    /\ pc = "pass"
    /\ ~render_pass.constructed
    /\ render_pass' = ConstructedPass
    /\ UNCHANGED nonPassVars

\* render_pass.add_attachment(attachment)
AddAttachment ==
    /\ pc = "pass"
    /\ render_pass.constructed
    /\ render_pass.created # "aborted"
    /\ render_pass.attachment_descriptions < MaxAttachments
    /\ render_pass' = [render_pass EXCEPT !.attachment_descriptions = @ + 1]
    /\ UNCHANGED nonPassVars

\* render_pass.create(target_attachments, area_rect)
PassCreate ==
    /\ pc = "pass"
    /\ render_pass.constructed
    /\ render_pass.created # "aborted"
    /\ \E target_attachments \in TargetAttachments(MaxGroups, MaxGroupViews),
          area_rect \in RenderAreas, accepted \in BOOLEAN :
          LET with_pass == CreateRenderPass(render_pass) IN
          /\ accepted \/ DriverMayReject(render_pass, target_attachments)
          /\ render_pass' =
                IF Len(render_pass.framebuffers) # 0
                THEN [with_pass EXCEPT !.created = "aborted"]
                ELSE IF ~accepted
                THEN [with_pass EXCEPT !.area = area_rect, !.created = "failed",
                                       !.target_attachments = target_attachments]
                ELSE [CreateFramebuffers(with_pass, target_attachments, area_rect)
                         EXCEPT !.created = "yes",
                                !.target_attachments = target_attachments]
    /\ UNCHANGED nonPassVars

----------------------------------------------------------------------------
(* util::select_srgb_surface_format *)

\* The priority list in another order
DesiredFormatsMut == <<"R8G8B8Srgb", "B8G8R8Srgb", "R8G8B8A8Srgb", "B8G8R8A8Srgb">>

\* desired_formats: the priority list of formats to look for
DesiredFormats == <<"B8G8R8A8Srgb", "R8G8B8A8Srgb", "B8G8R8Srgb", "R8G8B8Srgb">>

\* The vk::Format and vk::ColorSpaceKHR values of the model
Formats == {"B8G8R8A8Srgb", "R8G8B8A8Srgb", "B8G8R8Srgb", "R8G8B8Srgb", "R8G8B8A8Unorm"}
ColorSpaces == {"SrgbNonlinear", "ExtendedSrgbLinear"}

\* Every list of at most n surface formats
SurfaceFormatLists(n) ==
    UNION {[1..k -> [format : Formats, colorSpace : ColorSpaces]] : k \in 0..n}

\* std::ranges::find_if(formats, ...) from position i on: the position of the
\* first entry of `format` in the SRGB-nonlinear color space, or 0 for end()
RECURSIVE FindSrgbEntry(_, _, _)
FindSrgbEntry(formats, format, i) ==
    IF i > Len(formats) THEN 0
    ELSE IF formats[i].format = format /\ formats[i].colorSpace = "SrgbNonlinear" THEN i
    ELSE FindSrgbEntry(formats, format, i + 1)

\* The loop over desired_formats from position d on
RECURSIVE SelectSrgbFrom(_, _)
SelectSrgbFrom(formats, d) ==
    IF d > Len(DesiredFormats) THEN [has_value |-> FALSE]
    ELSE LET it == FindSrgbEntry(formats, DesiredFormats[d], 1) IN
         IF it # 0 THEN [has_value |-> TRUE, value |-> formats[it]]
         ELSE SelectSrgbFrom(formats, d + 1)

\* select_srgb_surface_format(formats)
SelectSrgbSurfaceFormat(formats) == SelectSrgbFrom(formats, 1)

\* util::select_srgb_surface_format(surface_formats)
SelectFormat ==
    /\ pc = "format"
    /\ format_call = NoCall
    /\ format_call' = [by |-> "select_srgb_surface_format",
                       result |-> SelectSrgbSurfaceFormat(surface_formats)]
    /\ UNCHANGED <<surface_formats, nonFmtVars>>

\* The same selection, on the list taken in reverse order
SelectFormatReversed ==
    /\ pc = "format"
    /\ format_call = NoCall
    /\ LET reversed == [i \in 1..Len(surface_formats) |->
                            surface_formats[Len(surface_formats) + 1 - i]]
       IN format_call' = [by |-> "reversed", result |-> SelectSrgbSurfaceFormat(reversed)]
    /\ UNCHANGED <<surface_formats, nonFmtVars>>

----------------------------------------------------------------------------
(* The graphics/present family search and the demo's VulkanContext *)

\* util::find_queue_family_indices_weak from C++ index i on: every index whose
\* flags include `flags`, in order
RECURSIVE FindQueueFamilyIndicesWeak(_, _, _)
FindQueueFamilyIndicesWeak(props, flags, i) ==
    IF i >= Len(props) THEN <<>>
    ELSE (IF (props[i + 1].queueFlags \cap flags) = flags THEN <<i>> ELSE <<>>)
         \o FindQueueFamilyIndicesWeak(props, flags, i + 1)

\* physical_device.getSurfaceSupportKHR(family, surface)
GetSurfaceSupportKHR(support, family) == family \in support

\* The first loop of findGraphicsAndPresentQueueFamilies: the first family of
\* the list, from position k on, that supports the surface, or nullopt
RECURSIVE FirstSupported(_, _, _)
FirstSupported(queue_families, support, k) ==
    IF k > Len(queue_families) THEN NoIndex
    ELSE IF GetSurfaceSupportKHR(support, queue_families[k]) THEN queue_families[k]
    ELSE FirstSupported(queue_families, support, k + 1)

\* The second loop of findGraphicsAndPresentQueueFamilies: present_queue after
\* the loop over the list from position k on, without a break
RECURSIVE LastSupported(_, _, _, _)
LastSupported(queue_families, support, k, present_queue) ==
    IF k > Len(queue_families) THEN present_queue
    ELSE LastSupported(queue_families, support, k + 1,
                       IF GetSurfaceSupportKHR(support, queue_families[k])
                       THEN queue_families[k] ELSE present_queue)

\* vkw::util::findGraphicsAndPresentQueueFamilies
FindGraphicsAndPresentQueueFamilies(props, support) ==
    LET queue_families == FindQueueFamilyIndicesWeak(props, Graphics, 0)
        both == FirstSupported(queue_families, support, 1)
    IN IF Len(queue_families) = 0
       THEN [outcome |-> "asserted"]
       ELSE IF both # NoIndex
       THEN [outcome |-> "returned", graphics |-> both, present |-> both]
       ELSE [outcome |-> "returned", graphics |-> queue_families[1],
             present |-> LastSupported(queue_families, support, 1, NoIndex)]

\* findGraphicsQueueFamilyIndex: the first family with the graphics bit
FindGraphicsQueueFamilyIndex(props) ==
    IndexOf([k \in 1..Len(props) |-> (props[k].queueFlags \cap Graphics) # {}], 1)

\* findGraphicsAndPresentQueueFamilyIndex of vk_utils.h
FindGraphicsAndPresentQueueFamilyIndex(props, support) ==
    LET graphics_queue_family_index == FindGraphicsQueueFamilyIndex(props)
        both == IndexOf([k \in 1..Len(props) |->
                            /\ (props[k].queueFlags \cap Graphics) # {}
                            /\ GetSurfaceSupportKHR(support, k - 1)], 1)
        any == IndexOf([k \in 1..Len(props) |-> GetSurfaceSupportKHR(support, k - 1)], 1)
    IN IF graphics_queue_family_index = NoIndex
       THEN [outcome |-> "asserted"]
       ELSE IF GetSurfaceSupportKHR(support, graphics_queue_family_index)
       THEN [outcome |-> "returned", graphics |-> graphics_queue_family_index,
             present |-> graphics_queue_family_index]
       ELSE IF both # NoIndex
       THEN [outcome |-> "returned", graphics |-> both, present |-> both]
       ELSE IF any # NoIndex
       THEN [outcome |-> "returned", graphics |-> graphics_queue_family_index,
             present |-> any]
       ELSE [outcome |-> "thrown"]

\* makeDevice: the queue create infos of the device, one queue of priority 0
\* in the family passed
MakeDeviceQueueCreateInfos(queueFamilyIndex) ==
    << [queueFamilyIndex |-> queueFamilyIndex, queueCount |-> 1, priorities |-> <<0>>] >>

\* VulkanContext::VulkanContext from the family search on: the members after
ConstructContext(by, props, support) ==
    LET found == FindGraphicsAndPresentQueueFamilyIndex(props, support) IN
    IF found.outcome # "returned"
    THEN [constructed |-> "failed", by |-> by]
    ELSE [constructed |-> "yes", by |-> by,
          graphics_queue_family_idx |-> found.graphics,
          present_queue_family_idx |-> found.present,
          queue_create_infos |-> MakeDeviceQueueCreateInfos(found.graphics),
          graphics_queue |-> [family |-> found.graphics, index |-> 0],
          present_queue |-> [family |-> found.present, index |-> 0]]

\* The flags of a family of the driver in the family search
SearchFamilyFlags == {{1}, {2}, {1, 2}, {4}}

\* The drivers of the family search: up to n families of one queue each
SearchProfiles(n) ==
    UNION {[1..k -> [queueFlags : SearchFamilyFlags, queueCount : {1}]] : k \in 1..n}

\* vkw::util::findGraphicsAndPresentQueueFamilies(physical_device, surface)
SearchFamilies ==
    /\ pc = "context"
    /\ search_call = NoCall
    /\ search_call' = [by |-> "findGraphicsAndPresentQueueFamilies",
                       result |-> FindGraphicsAndPresentQueueFamilies(properties, surface_support)]
    /\ UNCHANGED <<properties, surface_support, context, nonSearchVars>>

\* findGraphicsAndPresentQueueFamilyIndex(physical_device, surface)
SearchFamilyIndex ==
    /\ pc = "context"
    /\ search_call = NoCall
    /\ search_call' = [by |-> "findGraphicsAndPresentQueueFamilyIndex",
                       result |-> FindGraphicsAndPresentQueueFamilyIndex(properties, surface_support)]
    /\ UNCHANGED <<properties, surface_support, context, nonSearchVars>>

\* VulkanContext::VulkanContext of vulkan_rendering.h
ContextConstructRendering ==
    /\ pc = "context"
    /\ context.constructed = "no"
    /\ context' = ConstructContext("vulkan_rendering.h", properties, surface_support)
    /\ UNCHANGED <<properties, surface_support, search_call, nonSearchVars>>

\* VulkanContext::VulkanContext of main.cpp
ContextConstructMain ==
    /\ pc = "context"
    /\ context.constructed = "no"
    /\ context' = ConstructContext("main.cpp", properties, surface_support)
    /\ UNCHANGED <<properties, surface_support, search_call, nonSearchVars>>

----------------------------------------------------------------------------
(* Texture and setImageLayout *)

\* vk::FormatFeatureFlagBits of the model
FormatFeatureFlagBits == {"SampledImage", "ColorAttachment"}

\* The extents a texture is built with
TextureExtents == {<<256, 256>>, <<64, 32>>}

\* Staging only when forced
NeedsStagingMut(force_staging, linearTilingFeatures, format_feature_flags) == force_staging

\* needs_staging of the constructor
NeedsStaging(force_staging, linearTilingFeatures, format_feature_flags) ==
    force_staging \/ ((linearTilingFeatures \cap format_feature_flags) # format_feature_flags)

\* Texture::Texture: the members after, with the arguments kept as `args`
ConstructTexture(extent, format_feature_flags, force_staging, format_properties) ==
    LET flags == format_feature_flags \cup {"SampledImage"}
        needs_staging == NeedsStaging(force_staging, format_properties.linearTilingFeatures, flags)
        args == [format_feature_flags |-> format_feature_flags,
                 force_staging |-> force_staging,
                 format_properties |-> format_properties]
    IN IF needs_staging /\ (format_properties.optimalTilingFeatures \cap flags) # flags
       THEN [constructed |-> "aborted", args |-> args]
       ELSE [constructed |-> "yes", args |-> args,
             format |-> "R8G8B8A8Unorm", extent |-> extent,
             needs_staging |-> needs_staging,
             staging_buffer |-> IF needs_staging THEN extent[1] * extent[2] * 4 ELSE 0,
             image_tiling |-> IF needs_staging THEN "Optimal" ELSE "Linear",
             initial_layout |-> IF needs_staging THEN "Undefined" ELSE "Preinitialized",
             set_images |-> 0]

\* source_access_mask of setImageLayout
SourceAccessMask(oldImageLayout) ==
    CASE oldImageLayout = "TransferDstOptimal" -> {"TransferWrite"}
      [] oldImageLayout = "Preinitialized" -> {"HostWrite"}
      [] OTHER -> {}

\* source_stage of setImageLayout
SourceStage(oldImageLayout) ==
    CASE oldImageLayout \in {"General", "Preinitialized"} -> "Host"
      [] oldImageLayout = "TransferDstOptimal" -> "Transfer"
      [] OTHER -> "TopOfPipe"

\* destination_access_mask of setImageLayout
DestinationAccessMask(newImageLayout) ==
    CASE newImageLayout = "ShaderReadOnlyOptimal" -> {"ShaderRead"}
      [] newImageLayout = "TransferDstOptimal" -> {"TransferWrite"}
      [] OTHER -> {}

\* destination_stage of setImageLayout
DestinationStage(newImageLayout) ==
    CASE newImageLayout = "ShaderReadOnlyOptimal" -> "FragmentShader"
      [] OTHER -> "None"

\* setImageLayout: the pipeline barrier it records
SetImageLayout(oldImageLayout, newImageLayout) ==
    [call |-> "pipelineBarrier", recorded |-> TRUE,
     source_stage |-> SourceStage(oldImageLayout),
     destination_stage |-> DestinationStage(newImageLayout),
     source_access_mask |-> SourceAccessMask(oldImageLayout),
     destination_access_mask |-> DestinationAccessMask(newImageLayout),
     oldLayout |-> oldImageLayout, newLayout |-> newImageLayout]

\* The copy setImage records on the staged path
CopyBufferToImage(extent) ==
    [call |-> "copyBufferToImage", recorded |-> TRUE, source |-> "staging_buffer",
     layout |-> "TransferDstOptimal", extent |-> extent]

\* Texture::setImage: its calls, in order
SetImageCalls(t) ==
    LET target == IF t.needs_staging THEN "staging_buffer" ELSE "image_data" IN
    << [call |-> "mapMemory", recorded |-> FALSE, of |-> target],
       [call |-> "imageGenerator", recorded |-> FALSE, data |-> target, extent |-> t.extent],
       [call |-> "unmapMemory", recorded |-> FALSE, of |-> target] >>
    \o (IF t.needs_staging
        THEN << SetImageLayout("Undefined", "TransferDstOptimal"),
                CopyBufferToImage(t.extent),
                SetImageLayout("TransferDstOptimal", "ShaderReadOnlyOptimal") >>
        ELSE << SetImageLayout("Preinitialized", "ShaderReadOnlyOptimal") >>)

\* Texture(physical_device, device, extent, usage_flags, format_feature_flags,
\* enable_anisotropy, force_staging)
TextureConstruct ==
    /\ pc = "texture"
    /\ texture.constructed = "no"
    /\ \E extent \in TextureExtents, format_feature_flags \in SUBSET FormatFeatureFlagBits,
          force_staging \in BOOLEAN,
          format_properties \in [linearTilingFeatures : SUBSET FormatFeatureFlagBits,
                                 optimalTilingFeatures : SUBSET FormatFeatureFlagBits] :
          texture' = ConstructTexture(extent, format_feature_flags, force_staging,
                                      format_properties)
    /\ UNCHANGED <<texture_calls, nonTextureVars>>

\* texture.setImage(commandBuffer, imageGenerator)
TextureSetImage ==
    /\ pc = "texture"
    /\ texture.constructed = "yes"
    /\ texture.set_images < MaxSetImages
    /\ texture_calls' = SetImageCalls(texture)
    /\ texture' = [texture EXCEPT !.set_images = @ + 1]
    /\ UNCHANGED nonTextureVars

----------------------------------------------------------------------------
(* The frame of the demo's main *)

\* The loop is left on a timeout as on anything else
WaitLoopContinuesMut(result) == FALSE

\* The condition of `while (vk::Result::eTimeout == ...waitForFences(...))`
WaitLoopContinues(result) == result = "Timeout"

\* The switch on the result of presentKHR: what follows the call
PresentSwitch(result) ==
    CASE result = "Success" -> <<>>
      [] result = "SuboptimalKHR" -> << [call |-> "log", text |-> "presentKHR returned eSuboptimalKHR"] >>
      [] OTHER -> << [call |-> "assert", holds |-> FALSE] >>

\* acquireNextImage and the two asserts on its result
FrameAcquire ==
    /\ pc = "frame"
    /\ frame.pc = "none"
    /\ \E result \in {"Success", "Timeout"}, imageIndex \in 0..MaxFrameImages :
          /\ frame' = [pc |-> IF result = "Success" /\ imageIndex < MaxFrameImages
                              THEN "recorded" ELSE "aborted",
                       imageIndex |-> imageIndex, fence_signaled |-> FALSE,
                       timeouts |-> 0, polls |-> 0]
          /\ frame_calls' = << [call |-> "acquireNextImage", result |-> result,
                                imageIndex |-> imageIndex] >>
    /\ UNCHANGED nonFrameVars

\* The draw fence is created and the command buffer submitted with it
FrameSubmit ==
    /\ frame.pc = "recorded"
    /\ frame' = [frame EXCEPT !.pc = "waiting"]
    /\ frame_calls' = Append(frame_calls, [call |-> "submit", fence |-> "drawFence"])
    /\ UNCHANGED nonFrameVars

\* The device finishes the submitted work and signals the draw fence
FenceSignal ==
    /\ frame.pc = "waiting"
    /\ ~frame.fence_signaled
    /\ frame' = [frame EXCEPT !.fence_signaled = TRUE]
    /\ UNCHANGED <<frame_calls, nonFrameVars>>

\* One waitForFences on the draw fence that returns, and the test of the loop
FrameWait ==
    /\ frame.pc = "waiting"
    /\ frame.fence_signaled \/ frame.timeouts < MaxTimeouts
    /\ LET result == IF frame.fence_signaled THEN "Success" ELSE "Timeout" IN
          /\ frame' = [frame EXCEPT
                          !.pc = IF WaitLoopContinues(result) THEN "waiting" ELSE "present",
                          !.timeouts = IF result = "Timeout" THEN @ + 1 ELSE @]
          /\ frame_calls' = Append(frame_calls,
                 [call |-> "waitForFences", fence |-> "drawFence", result |-> result])
    /\ UNCHANGED nonFrameVars

\* waitForFences fails: the wrapper throws and main is left
FrameWaitThrows ==
    /\ frame.pc = "waiting"
    /\ ~frame.fence_signaled
    /\ frame' = [frame EXCEPT !.pc = "terminated"]
    /\ frame_calls' = Append(frame_calls,
           [call |-> "waitForFences", fence |-> "drawFence", result |-> "ErrorDeviceLost"])
    /\ UNCHANGED nonFrameVars

\* presentKHR and the switch on its result
FramePresent ==
    /\ frame.pc = "present"
    /\ \E result \in {"Success", "SuboptimalKHR", "ErrorOutOfDateKHR"} :
          /\ frame' = [frame EXCEPT
                          !.pc = IF result \in {"Success", "SuboptimalKHR"}
                                 THEN "present_done" ELSE "aborted"]
          /\ frame_calls' = frame_calls
                 \o << [call |-> "presentKHR", imageIndex |-> frame.imageIndex,
                        result |-> result] >>
                 \o PresentSwitch(result)
    /\ UNCHANGED nonFrameVars

\* context.device->waitIdle()
FrameWaitIdle ==
    /\ frame.pc = "present_done"
    /\ frame' = [frame EXCEPT !.pc = "events"]
    /\ frame_calls' = Append(frame_calls, [call |-> "waitIdle"])
    /\ UNCHANGED nonFrameVars

\* One test of the event loop: poll, or leave and terminate
FramePoll ==
    /\ frame.pc = "events"
    /\ \/ /\ frame.polls < MaxPolls
          /\ frame' = [frame EXCEPT !.polls = @ + 1]
          /\ frame_calls' = frame_calls
                 \o << [call |-> "glfwWindowShouldClose", result |-> FALSE],
                       [call |-> "glfwPollEvents"] >>
       \/ /\ frame' = [frame EXCEPT !.pc = "exited"]
          /\ frame_calls' = frame_calls
                 \o << [call |-> "glfwWindowShouldClose", result |-> TRUE],
                       [call |-> "glfwTerminate"] >>
    /\ UNCHANGED nonFrameVars

----------------------------------------------------------------------------
(* Specifications *)

\* No logical device under construction
DeviceIdle(phase) ==
    /\ pc = phase
    /\ device_created = FALSE
    /\ queues = <<>>
    /\ queue_map = <<>>
    /\ sp_family = 0
    /\ permutation = 0
    /\ sp_iter = 0
    /\ lookups = 0

\* No add operation made
InfoIdle ==
    /\ last_add = [kind |-> "none"]
    /\ adds = 0

\* A default-constructed swapchain
SwapchainIdle ==
    /\ swapchain = NoSwapchain
    /\ driver_calls = <<>>
    /\ resizes = 0

\* No bindless manager
BindlessIdle ==
    /\ manager = NoManager
    /\ buffer_table = EmptyTable
    /\ buffers = <<>>
    /\ descriptor_set = <<>>
    /\ resources = <<>>

\* No memory-type search made
MemoryIdle ==
    /\ memory_properties = << >>
    /\ memory_request = [type_bits |-> 0, wanted |-> {}]
    /\ memory_call = NoCall

\* No staged upload made
UploadIdle ==
    /\ dst_buffer = [count |-> 0, usage |-> {}, property_flags |-> {}, memory |-> <<>>]
    /\ upload_data = <<>>
    /\ upload_call = NoCall

\* No window constructed
WindowIdle ==
    /\ windows = <<>>
    /\ window_calls = <<>>

\* No instance constructed
InstanceIdle ==
    /\ instance_input = [layers |-> <<>>, extensions |-> <<>>, utils |-> FALSE,
                         validation |-> FALSE, layer_properties |-> {},
                         extension_properties |-> {}]
    /\ instance_config = NoCall

\* No render pass constructed
PassIdle == render_pass = [constructed |-> FALSE]

\* No surface format selection made
FormatIdle ==
    /\ surface_formats = <<>>
    /\ format_call = NoCall

\* The components the specification at hand does not run
\* No family search made, no VulkanContext constructed
SearchIdle ==
    /\ surface_support = {}
    /\ search_call = [by |-> "none"]
    /\ context = [constructed |-> "no"]

\* No texture constructed
TextureIdle ==
    /\ texture = [constructed |-> "no"]
    /\ texture_calls = <<>>

\* The demo frame has not begun
FrameIdle ==
    /\ frame = [pc |-> "none"]
    /\ frame_calls = <<>>

DemoIdle ==
    /\ SearchIdle
    /\ TextureIdle
    /\ FrameIdle

LaterIdle ==
    /\ UploadIdle
    /\ WindowIdle
    /\ InstanceIdle
    /\ PassIdle
    /\ FormatIdle

\* A logical device is constructed from a request list
InitDevice ==
    /\ properties \in DeviceProfiles
    /\ \E p \in Priorities : queue_family_info_list \in RequestLists(Len(properties), p)
    /\ DeviceIdle("start")
    /\ InfoIdle
    /\ DemoIdle
    /\ SwapchainIdle
    /\ BindlessIdle
    /\ MemoryIdle
    /\ LaterIdle

NextDevice ==
    \/ Validate
    \/ CreateDevice
    \/ FirstQueuePass
    \/ SecondPassPermutation
    \/ SecondPassNextFamily
    \/ GetQueues

SpecDevice == InitDevice /\ [][NextDevice]_vars

\* A request list is built from the empty list
InitInfo ==
    /\ properties \in InfoDeviceProfiles
    /\ queue_family_info_list = <<>>
    /\ DeviceIdle("info")
    /\ InfoIdle
    /\ DemoIdle
    /\ SwapchainIdle
    /\ BindlessIdle
    /\ MemoryIdle
    /\ LaterIdle

NextInfo ==
    \/ AddByFlags
    \/ AddByIndex
    \/ AddAll

SpecInfo == InitInfo /\ [][NextInfo]_vars

\* The request list built by capability adds and addAllQueues only
NextCapabilityInfo ==
    \/ AddByFlags
    \/ AddAll

SpecCapabilityInfo == InitInfo /\ [][NextCapabilityInfo]_vars

\* A swapchain is created, built and resized
InitSwapchain ==
    /\ properties = <<>>
    /\ queue_family_info_list = <<>>
    /\ DeviceIdle("swapchain")
    /\ InfoIdle
    /\ DemoIdle
    /\ SwapchainIdle
    /\ BindlessIdle
    /\ MemoryIdle
    /\ LaterIdle

NextSwapchain ==
    \/ SwapchainCreate
    \/ SwapchainBuild
    \/ SwapchainResize

SpecSwapchain == InitSwapchain /\ [][NextSwapchain]_vars

\* A bindless manager is created; storage buffers are created, shared and dropped
InitBindless ==
    /\ properties = <<>>
    /\ queue_family_info_list = <<>>
    /\ DeviceIdle("bindless")
    /\ InfoIdle
    /\ DemoIdle
    /\ SwapchainIdle
    /\ BindlessIdle
    /\ MemoryIdle
    /\ LaterIdle

NextBindless ==
    \/ ManagerCreate
    \/ CreateStorageBuffer
    \/ ShareResource
    \/ DropResource
    \/ ManagerDrop

SpecBindless == InitBindless /\ [][NextBindless]_vars

\* The memory-type search, on every driver report and request within the bounds
InitMemory ==
    /\ properties = <<>>
    /\ queue_family_info_list = <<>>
    /\ DeviceIdle("memory")
    /\ InfoIdle
    /\ DemoIdle
    /\ SwapchainIdle
    /\ BindlessIdle
    /\ memory_properties \in MemoryTypeLists(MaxMemoryTypes)
    /\ \E b \in MemoryTypeBits(MaxMemoryTypes), w \in SUBSET MemoryPropertyFlagBits :
          memory_request = [type_bits |-> b, wanted |-> w]
    /\ memory_call = NoCall
    /\ LaterIdle

NextMemory ==
    \/ BufferFindMemoryType
    \/ UtilsFindMemoryType

SpecMemory == InitMemory /\ [][NextMemory]_vars

\* The staged upload, on every buffer and span within the bounds
InitUpload ==
    /\ properties = <<>>
    /\ queue_family_info_list = <<>>
    /\ DeviceIdle("upload")
    /\ InfoIdle
    /\ DemoIdle
    /\ SwapchainIdle
    /\ BindlessIdle
    /\ MemoryIdle
    /\ dst_buffer \in DestinationBuffers(MaxElements)
    /\ upload_data \in Spans(MaxElements)
    /\ upload_call = NoCall
    /\ WindowIdle
    /\ InstanceIdle
    /\ PassIdle
    /\ FormatIdle

NextUpload ==
    \/ BufferUpload
    \/ UtilsUpload

SpecUpload == InitUpload /\ [][NextUpload]_vars

\* Windows are constructed and destroyed
InitWindow ==
    /\ properties = <<>>
    /\ queue_family_info_list = <<>>
    /\ DeviceIdle("window")
    /\ InfoIdle
    /\ DemoIdle
    /\ SwapchainIdle
    /\ BindlessIdle
    /\ MemoryIdle
    /\ LaterIdle

NextWindow ==
    \/ WindowConstruct
    \/ WindowDestroy

SpecWindow == InitWindow /\ [][NextWindow]_vars

\* The lists of an instance are validated, for every configuration
InitInstance ==
    /\ properties = <<>>
    /\ queue_family_info_list = <<>>
    /\ DeviceIdle("instance")
    /\ InfoIdle
    /\ DemoIdle
    /\ SwapchainIdle
    /\ BindlessIdle
    /\ MemoryIdle
    /\ UploadIdle
    /\ WindowIdle
    /\ instance_input \in InstanceInputs
    /\ instance_config = NoCall
    /\ PassIdle
    /\ FormatIdle

NextInstance ==
    \/ InstanceConstruct
    \/ GatherLayersAndExtensions

SpecInstance == InitInstance /\ [][NextInstance]_vars

\* A render pass is constructed, given attachments and created
InitPass ==
    /\ properties = <<>>
    /\ queue_family_info_list = <<>>
    /\ DeviceIdle("pass")
    /\ InfoIdle
    /\ DemoIdle
    /\ SwapchainIdle
    /\ BindlessIdle
    /\ MemoryIdle
    /\ LaterIdle

NextPass ==
    \/ PassConstruct
    \/ AddAttachment
    \/ PassCreate

SpecPass == InitPass /\ [][NextPass]_vars

\* The surface format selection, on every list within the bounds
InitFormat ==
    /\ properties = <<>>
    /\ queue_family_info_list = <<>>
    /\ DeviceIdle("format")
    /\ InfoIdle
    /\ DemoIdle
    /\ SwapchainIdle
    /\ BindlessIdle
    /\ MemoryIdle
    /\ UploadIdle
    /\ WindowIdle
    /\ InstanceIdle
    /\ PassIdle
    /\ surface_formats \in SurfaceFormatLists(MaxFormats)
    /\ format_call = NoCall

NextFormat ==
    \/ SelectFormat
    \/ SelectFormatReversed

SpecFormat == InitFormat /\ [][NextFormat]_vars

\* The family search and the VulkanContext, on every driver within the bounds
InitContext ==
    /\ properties \in SearchProfiles(MaxSearchFamilies)
    /\ queue_family_info_list = <<>>
    /\ DeviceIdle("context")
    /\ InfoIdle
    /\ SwapchainIdle
    /\ BindlessIdle
    /\ MemoryIdle
    /\ LaterIdle
    /\ surface_support \in SUBSET (0..(Len(properties) - 1))
    /\ search_call = NoCall
    /\ context = [constructed |-> "no"]
    /\ TextureIdle
    /\ FrameIdle

NextContext ==
    \/ SearchFamilies
    \/ SearchFamilyIndex
    \/ ContextConstructRendering
    \/ ContextConstructMain

SpecContext == InitContext /\ [][NextContext]_vars

\* A texture, constructed and filled
InitTexture ==
    /\ properties = <<>>
    /\ queue_family_info_list = <<>>
    /\ DeviceIdle("texture")
    /\ InfoIdle
    /\ DemoIdle
    /\ SwapchainIdle
    /\ BindlessIdle
    /\ MemoryIdle
    /\ LaterIdle

NextTexture ==
    \/ TextureConstruct
    \/ TextureSetImage

SpecTexture == InitTexture /\ [][NextTexture]_vars

\* The frame of the demo; the program keeps running, so a step of main that
\* can be taken is taken
InitFrame ==
    /\ properties = <<>>
    /\ queue_family_info_list = <<>>
    /\ DeviceIdle("frame")
    /\ InfoIdle
    /\ DemoIdle
    /\ SwapchainIdle
    /\ BindlessIdle
    /\ MemoryIdle
    /\ LaterIdle

NextFrame ==
    \/ FrameAcquire
    \/ FrameSubmit
    \/ FenceSignal
    \/ FrameWait
    \/ FrameWaitThrows
    \/ FramePresent
    \/ FrameWaitIdle
    \/ FramePoll

SpecFrame ==
    /\ InitFrame
    /\ [][NextFrame]_vars
    /\ WF_vars(FrameWait)
    /\ WF_vars(FramePresent)
    /\ WF_vars(FrameWaitIdle)

----------------------------------------------------------------------------
(* Properties of the logical device *)

\* The request record of the family a queue object belongs to
FamilyOfQueue(q) ==
    CHOOSE i \in 1..Len(queue_family_info_list) :
        queue_family_info_list[i].family_idx = queues[q].family_index

FlagsOfQueue(q) == queue_family_info_list[FamilyOfQueue(q)].flags

Range(seq) == {seq[i] : i \in 1..Len(seq)}

\* C1: after construction, every queue listed under queue_map[flags] belongs
\* to a family whose flags are a superset of `flags`.
C1_MappedQueuesSupportFlags ==
    pc = "done" =>
        \A flags \in DOMAIN queue_map :
            \A i \in 1..Len(queue_map[flags]) :
                flags \subseteq FlagsOfQueue(queue_map[flags][i])

\* C1 witness: a constructed device whose map lists a queue under a strict
\* subset of its family's flags.
C1_Witness ==
    /\ pc = "done"
    /\ \E flags \in DOMAIN queue_map :
          \E i \in 1..Len(queue_map[flags]) :
              /\ flags # FlagsOfQueue(queue_map[flags][i])
              /\ flags \subseteq FlagsOfQueue(queue_map[flags][i])

\* In every list, exact matches come before strict-superset matches, and the
\* first entry is an exact match when the request list holds one.
C2_ExactFirst ==
    pc = "done" =>
        \A flags \in DOMAIN queue_map :
            LET list == queue_map[flags] IN
            /\ \A i, j \in 1..Len(list) :
                  (FlagsOfQueue(list[i]) = flags /\ FlagsOfQueue(list[j]) # flags) => i < j
            /\ (\E f \in 1..Len(queue_family_info_list) :
                    queue_family_info_list[f].flags = flags)
                  => (Len(list) > 0 /\ FlagsOfQueue(list[1]) = flags)

\* A lookup on the constructed device leaves every existing list as it was.
C2_LookupStable ==
    pc = "done" =>
        \A flags \in DOMAIN queue_map :
            flags \in DOMAIN queue_map' /\ queue_map'[flags] = queue_map[flags]

\* C2: after construction, in every queue_map[flags] the queues of families
\* whose flags equal `flags` precede those of strict-superset families, so
\* getQueue(flags, 0) is an exact match whenever the request list holds one,
\* and lookups do not change the order.
C2_ExactBeforeSuperset == [](C2_ExactFirst) /\ [][C2_LookupStable]_vars

\* C2 witness: after a lookup, a list holds an exact match followed by a
\* strict-superset match, the exact family coming later in the request list.
C2_Witness ==
    /\ pc = "done"
    /\ lookups > 0
    /\ \E flags \in DOMAIN queue_map :
          LET list == queue_map[flags] IN
          /\ Len(list) >= 2
          /\ FlagsOfQueue(list[1]) = flags
          /\ FlagsOfQueue(list[Len(list)]) # flags
          /\ FamilyOfQueue(list[1]) > FamilyOfQueue(list[Len(list)])

\* C3 (as claimed): after construction, for every family flags F of the
\* request list and every non-empty strict subset S of F, queue_map[S]
\* contains every queue of every requested family whose flags include S.
C3_SubsetListsComplete ==
    pc = "done" =>
        \A f \in 1..Len(queue_family_info_list) :
            \A S \in SUBSET queue_family_info_list[f].flags :
                (S # {} /\ S # queue_family_info_list[f].flags) =>
                    /\ S \in DOMAIN queue_map
                    /\ \A q \in 1..Len(queues) :
                          S \subseteq FlagsOfQueue(q) => q \in Range(queue_map[S])

\* How many times queue q occurs in a list of the map
Occurrences(list, q) == Cardinality({i \in 1..Len(list) : list[i] = q})

\* The non-empty strict subsets of a flag set
StrictSubsets(flags) == {S \in SUBSET flags : S # {} /\ S # flags}

\* C21 (as claimed): after construction, every queue of a family with flags F
\* is listed exactly once under every non-empty strict subset S of F; no list
\* of the map holds a queue twice, and every queue is in exactly 2^|F| - 1
\* lists.
C21_EachSubsetListsQueueOnce ==
    pc = "done" =>
        /\ \A q \in 1..Len(queues) :
              /\ \A S \in StrictSubsets(FlagsOfQueue(q)) :
                    S \in DOMAIN queue_map /\ Occurrences(queue_map[S], q) = 1
              /\ Cardinality({flags \in DOMAIN queue_map : q \in Range(queue_map[flags])})
                    = Pow2(Cardinality(FlagsOfQueue(q))) - 1
        /\ \A flags \in DOMAIN queue_map :
              \A i, j \in 1..Len(queue_map[flags]) :
                  i # j => queue_map[flags][i] # queue_map[flags][j]

\* The number of masks the second pass is to visit for a flag set
MasksToVisit(flags) ==
    IF Cardinality(flags) <= 1 THEN 0 ELSE Pow2(Cardinality(flags)) - 2

\* The second pass never makes more iterations for a family than it has
\* masks to visit, and has made them all when its loop ends.
C22_IterationCount ==
    pc = "second_pass" =>
        LET flags == queue_family_info_list[sp_family].flags IN
        /\ sp_iter <= MasksToVisit(flags)
        /\ permutation = 0 => sp_iter = MasksToVisit(flags)
        /\ \A p1, p2 \in 1..MasksToVisit(flags) :
              p1 # p2 => PermutationMask(flags, p1) # PermutationMask(flags, p2)

\* Every iteration of the second pass is for a non-empty strict subset.
C22_IterationMask ==
    (pc = "second_pass" /\ sp_iter' = sp_iter + 1) =>
        PermutationMask(queue_family_info_list[sp_family].flags, permutation)
            \in StrictSubsets(queue_family_info_list[sp_family].flags)

\* C22 (as claimed): for every family of a validated request list whose flags
\* have k bits, the second pass visits exactly the non-empty strict subsets
\* of the bits, 2^k - 2 masks and none when k <= 1, and then ends; also for a
\* family of a single bit or of empty flags.
C22_SecondPassVisitsStrictSubsets == [](C22_IterationCount) /\ [][C22_IterationMask]_vars

\* The request list breaks one of the rules named by C10.
C10_InvalidRequest ==
    \E i \in 1..Len(queue_family_info_list) :
        LET family == queue_family_info_list[i] IN
        \/ family.family_idx >= Len(properties)
        \/ /\ family.family_idx < Len(properties)
           /\ \/ Len(family.queues) > properties[family.family_idx + 1].queueCount
              \/ ~(family.flags \subseteq properties[family.family_idx + 1].queueFlags)
        \/ \E q \in 1..Len(family.queues) : family.queues[q] < 0 \/ family.queues[q] > 1

\* C10: a request list with an out-of-range family index, too many queues,
\* unsupported flags or a priority outside [0,1] makes the constructor fail
\* before the driver device is created; no queue object and no map entry
\* exists then.
C10_InvalidRequestFailsEarly ==
    C10_InvalidRequest =>
        /\ pc \in {"start", "failed"}
        /\ ~device_created
        /\ queues = <<>>
        /\ DOMAIN queue_map = {}

\* C10 witness: the constructor has failed on a request whose only fault is
\* a negative priority.
C10_Witness ==
    /\ pc = "failed"
    /\ ~device_created
    /\ Len(queue_family_info_list) = 1
    /\ queue_family_info_list[1].family_idx = 0
    /\ queue_family_info_list[1].flags \subseteq properties[1].queueFlags
    /\ queue_family_info_list[1].queues = <<-1>>

----------------------------------------------------------------------------
(* Properties of the request-list operations *)

\* Number of queues a request list holds for a family
RECURSIVE ReservedFrom(_, _, _)
ReservedFrom(list, family_idx, i) ==
    IF i > Len(list) THEN 0
    ELSE (IF list[i].family_idx = family_idx THEN Len(list[i].queues) ELSE 0)
         + ReservedFrom(list, family_idx, i + 1)

Reserved(list, family_idx) == ReservedFrom(list, family_idx, 1)

\* Driver queueCount minus the queues already in the request list
Unreserved(list, family_idx) ==
    properties[family_idx + 1].queueCount - Reserved(list, family_idx)

FamilyIndices == 0..(Len(properties) - 1)

ExactFamilies(flags) == {f \in FamilyIndices : properties[f + 1].queueFlags = flags}
SupersetFamilies(flags) == {f \in FamilyIndices : flags \subseteq properties[f + 1].queueFlags}

Lowest(S) == CHOOSE x \in S : \A y \in S : x <= y

\* The last capability add reserved its `count` queues in family f and nowhere else
ReservedIn(f) ==
    /\ last_add.result = TRUE
    /\ last_add.family = f
    /\ \A g \in FamilyIndices :
          Reserved(queue_family_info_list, g) =
              Reserved(last_add.before, g) + (IF g = f THEN last_add.count ELSE 0)

\* C4 (as claimed): addQueues(flags, priority, count) reserves in the
\* lowest-index family of exactly these flags when that family has at least
\* `count` unreserved queues, and otherwise in the lowest-index superset
\* family when that one has at least `count` unreserved queues.
C4_AddByCapabilitySelection ==
    last_add.kind = "flags" =>
        LET exact == ExactFamilies(last_add.flags)
            weak == SupersetFamilies(last_add.flags)
        IN IF exact # {} /\ Unreserved(last_add.before, Lowest(exact)) >= last_add.count
           THEN ReservedIn(Lowest(exact))
           ELSE (weak # {} /\ Unreserved(last_add.before, Lowest(weak)) >= last_add.count)
                    => ReservedIn(Lowest(weak))

\* C11: a request list built from empty by capability adds and addAllQueues
\* with priorities in [0,1] has, in every entry, a family index below the
\* driver's family count, flags within that family's flags, at most the
\* family's queueCount queues and priorities in [0,1]; and no family index
\* appears in two entries.
C11_RequestListWellFormed ==
    /\ \A i \in 1..Len(queue_family_info_list) :
          LET entry == queue_family_info_list[i] IN
          /\ entry.family_idx >= 0
          /\ entry.family_idx < Len(properties)
          /\ entry.flags \subseteq properties[entry.family_idx + 1].queueFlags
          /\ Len(entry.queues) <= properties[entry.family_idx + 1].queueCount
          /\ \A q \in 1..Len(entry.queues) : entry.queues[q] >= 0 /\ entry.queues[q] <= 1
    /\ \A i, j \in 1..Len(queue_family_info_list) :
          queue_family_info_list[i].family_idx = queue_family_info_list[j].family_idx => i = j

\* C11 witness: a second capability add filled a family, already in the
\* list, up to its queueCount.
C11_Witness ==
    /\ last_add.kind = "flags"
    /\ last_add.result = TRUE
    /\ last_add.count > 0
    /\ last_add.before # <<>>
    /\ Reserved(last_add.before, last_add.family) > 0
    /\ Unreserved(queue_family_info_list, last_add.family) = 0

\* The superset families that had `count` unreserved queues before the last add
FamiliesWithRoom ==
    {f \in SupersetFamilies(last_add.flags) :
        Unreserved(last_add.before, f) >= last_add.count}

\* C26 (as claimed): addQueues(flags, priority, count) with count >= 1
\* returns true, having reserved `count` queues in one family, whenever some
\* family whose flags include `flags` has `count` unreserved queues; it
\* returns false only when there is none, and leaves the list unchanged then.
C26_CapabilityAddFindsRoom ==
    (last_add.kind = "flags" /\ last_add.count >= 1) =>
        IF FamiliesWithRoom # {}
        THEN \E f \in FamilyIndices : ReservedIn(f)
        ELSE last_add.result = FALSE /\ queue_family_info_list = last_add.before

\* C27 (as claimed): for any sequence of explicit and capability adds, the
\* available count a capability add computes for a family is never larger
\* than the family's driver queueCount, and a capability add of at least one
\* queue never reserves in a family already reserved at or beyond its
\* queueCount.
C27_AvailableCountNeverWraps ==
    last_add.kind = "flags" =>
        /\ \A f \in FamilyIndices :
              AvailableCount(properties, last_add.before, f) <= properties[f + 1].queueCount
        /\ (last_add.result = TRUE /\ last_add.count >= 1) =>
              Reserved(last_add.before, last_add.family)
                  < properties[last_add.family + 1].queueCount

----------------------------------------------------------------------------
(* Properties of the swapchain *)

\* The create info of the last driver swapchain
LastCreateInfo ==
    LET created == {i \in 1..Len(driver_calls) : driver_calls[i].call = "createSwapchainKHR"}
    IN driver_calls[CHOOSE i \in created : \A j \in created : j <= i].info

\* C5 (as claimed): after the first build and after every resize, images
\* and image_views both have the image count negotiated for the current
\* driver swapchain, and every view is a 2D color view of the swapchain's
\* format over an image of the current swapchain.
C5_ImagesAndViewsMatchSwapchain ==
    swapchain.vk_swapchain # 0 =>
        /\ Len(swapchain.images) = LastCreateInfo.minImageCount
        /\ Len(swapchain.image_views) = LastCreateInfo.minImageCount
        /\ \A i \in 1..Len(swapchain.image_views) :
              LET view == swapchain.image_views[i] IN
              /\ view.viewType = "e2D"
              /\ view.aspectMask = "Color"
              /\ view.format = swapchain.format
              /\ view.image.swapchain = swapchain.vk_swapchain

\* Positions of the driver swapchain creations in the call log
CreatePositions == {i \in 1..Len(driver_calls) : driver_calls[i].call = "createSwapchainKHR"}

\* Position of the last driver swapchain creation
LastCreatePosition == CHOOSE i \in CreatePositions : \A j \in CreatePositions : j <= i

\* The surface capabilities the last build queried
LastCapabilities == driver_calls[LastCreatePosition - 1].caps

\* C12 (as claimed): a build uses sharing mode Exclusive unless the shared
\* queue family list has two or more distinct entries, and only then
\* Concurrent with that list.
C12_SharingModeByDistinctFamilies ==
    \A i \in CreatePositions :
        LET info == driver_calls[i].info IN
        IF Cardinality(Range(swapchain.shared_queues)) >= 2
        THEN /\ info.imageSharingMode = "Concurrent"
             /\ info.queueFamilyIndices = swapchain.shared_queues
        ELSE info.imageSharingMode = "Exclusive"

\* C13: every build passes the driver swapchain of the previous build as
\* oldSwapchain, and a null handle on the first build; every build of a
\* resize comes after the wait-idle of that resize, with no other driver
\* swapchain created in between, and uses the size the resize stored.
C13_ResizeWaitsThenRebuilds ==
    /\ \A i \in CreatePositions :
          LET earlier == Cardinality({j \in CreatePositions : j < i}) IN
          /\ driver_calls[i].info.oldSwapchain = earlier
          /\ earlier > 0 =>
                /\ i > 2
                /\ driver_calls[i - 2].call = "waitIdle"
    /\ \A i \in 1..Len(driver_calls) :
          driver_calls[i].call = "waitIdle" =>
              /\ i + 2 <= Len(driver_calls)
              /\ driver_calls[i + 2].call = "createSwapchainKHR"
    /\ Cardinality({i \in 1..Len(driver_calls) : driver_calls[i].call = "waitIdle"}) = resizes
    /\ Cardinality(CreatePositions) = (IF swapchain.vk_swapchain = 0 THEN 0 ELSE resizes + 1)
    /\ swapchain.vk_swapchain = Cardinality(CreatePositions)
    /\ swapchain.vk_swapchain # 0 =>
          LastCreateInfo.imageExtent = SelectSwapchainExtent(LastCapabilities, swapchain.size)

\* C13 witness: two resizes, the second to another size than the first
\* and with a surface that leaves the extent to the application.
C13_Witness ==
    /\ resizes = 2
    /\ swapchain.vk_swapchain = 3
    /\ LastCreateInfo.oldSwapchain = 2
    /\ LastCapabilities.currentExtent[1] = U32Max
    /\ swapchain.size = <<1024, 768>>
    /\ LastCreateInfo.imageExtent = <<1024, 768>>
    /\ \E i \in CreatePositions : driver_calls[i].info.imageExtent # LastCreateInfo.imageExtent

\* Lower and upper bound of one extent component
Within(v, lo, hi) == lo <= v /\ v <= hi

\* C19: the extent of a build is the surface's currentExtent unless its
\* width is the 32-bit maximum; then it is the requested size with each
\* component clamped into [minImageExtent, maxImageExtent], so it lies
\* within those bounds; with min (640,480) and max (3840,2160), (320,240)
\* gives (640,480) and (4096,4096) gives (3840,2160).
C19_ExtentClampedOrCurrent ==
    swapchain.vk_swapchain # 0 =>
        LET caps == LastCapabilities
            extent == LastCreateInfo.imageExtent
            size == swapchain.size
        IN IF caps.currentExtent[1] # U32Max
           THEN extent = caps.currentExtent
           ELSE /\ \A c \in 1..2 :
                     /\ Within(extent[c], caps.minImageExtent[c], caps.maxImageExtent[c])
                     /\ Within(size[c], caps.minImageExtent[c], caps.maxImageExtent[c])
                            => extent[c] = size[c]
                     /\ size[c] < caps.minImageExtent[c] => extent[c] = caps.minImageExtent[c]
                     /\ size[c] > caps.maxImageExtent[c] => extent[c] = caps.maxImageExtent[c]
                /\ (caps.minImageExtent = <<640, 480>> /\ caps.maxImageExtent = <<3840, 2160>>) =>
                     /\ size = <<320, 240>> => extent = <<640, 480>>
                     /\ size = <<4096, 4096>> => extent = <<3840, 2160>>

\* C19 witness: a resize to (4096,4096) on a surface without a current
\* extent gave (3840,2160), after a build that used another extent.
C19_Witness ==
    /\ resizes > 0
    /\ LastCapabilities.currentExtent[1] = U32Max
    /\ swapchain.size = <<4096, 4096>>
    /\ LastCreateInfo.imageExtent = <<3840, 2160>>
    /\ \E i \in CreatePositions : driver_calls[i].info.imageExtent = <<640, 480>>

----------------------------------------------------------------------------
(* Properties of the bindless manager *)

DeadResources == (1..Len(resources)) \ LiveResources

\* C6: every live resource was registered by a descriptor write at the
\* storage-buffer binding whose array_offset is the index of the handle the
\* resource stores, and the set still holds that resource at that offset.
C6_HandleIndexIsArrayOffset ==
    \A r \in LiveResources :
        /\ resources[r].write.binding = StorageBufferBinding
        /\ resources[r].write.array_offset = resources[r].handle.index
        /\ StorageBufferBinding \in DOMAIN descriptor_set
        /\ resources[r].handle.index \in DOMAIN descriptor_set[StorageBufferBinding]
        /\ descriptor_set[StorageBufferBinding][resources[r].handle.index] = r

\* C6 witness: two live resources, one of them written at an offset that an
\* earlier, destroyed resource had used.
C6_Witness ==
    \E r, q \in LiveResources, d \in DeadResources :
        /\ r # q
        /\ resources[r].handle.index > 0
        /\ resources[r].handle.index = resources[d].handle.index
        /\ resources[r].write.array_offset = resources[d].write.array_offset

\* C7: no two live resources hold the same index; an index is handed out
\* again only after its holder was destroyed, and then with a larger
\* generation, so a stale handle equals no live handle; four creates give
\* indices 0..3, and after releasing index 2 the next create gives index 2
\* with generation 1.
C7_IndexReuseBumpsGeneration ==
    /\ \A r, q \in LiveResources :
          r # q => resources[r].handle.index # resources[q].handle.index
    /\ \A r, q \in 1..Len(resources) :
          (r < q /\ resources[r].handle.index = resources[q].handle.index) =>
              /\ r \in resources[q].dead_before
              /\ resources[q].handle.generation > resources[r].handle.generation
    /\ \A d \in DeadResources : \A l \in LiveResources :
          resources[d].handle # resources[l].handle
    /\ (/\ Len(resources) >= 5
        /\ \A r \in 1..4 : resources[r].dead_before = {}
        /\ resources[5].dead_before = {3})
          => /\ \A r \in 1..4 : resources[r].handle = [index |-> r - 1, generation |-> 0]
             /\ resources[5].handle = [index |-> 2, generation |-> 1]

\* C7 witness: four buffers created, the one of index 2 released, a fifth
\* created and alive.
C7_Witness ==
    /\ Len(resources) = 5
    /\ \A r \in 1..4 : resources[r].dead_before = {}
    /\ resources[5].dead_before = {3}
    /\ LiveResources = {1, 2, 4, 5}

\* C8: after n creates and m destructions, the handle table of the storage
\* buffers holds n - m live handles.
C8_LiveHandleCount ==
    LiveHandles(buffer_table) = Len(resources) - Cardinality(DeadResources)

\* C8 witness: three creates and two destructions, interleaved.
C8_Witness ==
    /\ Len(resources) = 3
    /\ Cardinality(DeadResources) = 2
    /\ resources[3].dead_before = {1}
    /\ 3 \in LiveResources

----------------------------------------------------------------------------
(* Properties of the memory-type search *)

\* The indices i < memoryTypeCount whose bit is set in the type bits and
\* whose memory type has every wanted flag
QualifyingTypes ==
    {i \in 0..(Len(memory_properties) - 1) :
        /\ BitSet(memory_request.type_bits, i)
        /\ memory_request.wanted \subseteq memory_properties[i + 1]}

----------------------------------------------------------------------------
(* Properties of the staged upload *)

\* C14 (as claimed): when a staged upload of a span no longer than the
\* buffer returns, on a TransferDst, device-local buffer, the first
\* data.size() elements of the buffer equal the span, the staging buffer was
\* filled with the span, and the copy of data.size()*sizeof(T) bytes from
\* offset 0 to offset 0 was submitted before the queue was waited idle.
C14_StagedUploadCopiesData ==
    (upload_call # NoCall /\ upload_call.returned) =>
        /\ \A i \in 1..Len(upload_data) : dst_buffer.memory[i] = upload_data[i]
        /\ upload_call.staging = upload_data
        /\ Len(upload_call.queue_calls) = 2
        /\ upload_call.queue_calls[1].call = "submit"
        /\ \E c \in 1..Len(upload_call.queue_calls[1].commands) :
              LET command == upload_call.queue_calls[1].commands[c] IN
              /\ command.cmd = "copyBuffer"
              /\ command.srcOffset = 0
              /\ command.dstOffset = 0
              /\ command.size = Len(upload_data) * ElementSize
        /\ upload_call.queue_calls[2].call = "waitIdle"

----------------------------------------------------------------------------
(* Properties of the window *)

\* Positions in the call log of `call` on window id
CallPositions(call, id) ==
    {i \in 1..Len(window_calls) : window_calls[i].call = call /\ window_calls[i].window = id}

\* C15 (as claimed): when a window is destroyed, its surface is released
\* before the native window is destroyed.
C15_SurfaceReleasedBeforeWindow ==
    \A id \in 1..Len(windows) :
        windows[id].state = "destroyed" =>
            /\ CallPositions("vkDestroySurfaceKHR", id) # {}
            /\ \A s \in CallPositions("vkDestroySurfaceKHR", id) :
                  \A w \in CallPositions("glfwDestroyWindow", id) : s < w

----------------------------------------------------------------------------
(* Properties of the instance *)

\* `name` is appended to `before` exactly when the flag is set, the driver
\* reports it and the request does not hold it already
AppendedExactlyWhen(flag, name, before, after, reported) ==
    IF flag /\ name \in reported /\ name \notin Range(before)
    THEN after = Append(before, name)
    ELSE after = before

\* C16 (as claimed): with debug.validation set, the validation layer is
\* appended to the layer list exactly when the driver reports it and the
\* request does not hold it already, whatever other layers the driver
\* reports; the same for VK_EXT_debug_utils with debug.utils and the
\* extension list.
C16_DebugNamesAppendedWhenAvailable ==
    (instance_config # NoCall /\ (instance_config.by = "utils" => ~instance_config.failed)) =>
        /\ AppendedExactlyWhen(instance_input.validation, ValidationLayer,
                               instance_input.layers, instance_config.layers,
                               instance_input.layer_properties)
        /\ AppendedExactlyWhen(instance_input.utils, DebugUtilsExtension,
                               instance_input.extensions, instance_config.extensions,
                               instance_input.extension_properties)

----------------------------------------------------------------------------
(* Properties of the render pass *)

\* C17 (as claimed): after create with K target-attachment groups there are
\* exactly K framebuffers, framebuffer j is built over the views of group
\* j, and the attachment count of every framebuffer equals the number of
\* attachment descriptions added to the pass.
C17_FramebufferPerGroup ==
    (render_pass.constructed /\ render_pass.created = "yes") =>
        /\ Len(render_pass.framebuffers) = Len(render_pass.target_attachments)
        /\ \A j \in 1..Len(render_pass.framebuffers) :
              /\ render_pass.framebuffers[j].views = render_pass.target_attachments[j]
              /\ Len(render_pass.framebuffers[j].views) = render_pass.attachment_descriptions

\* C20: the map of the manager keeps no resource alive: a resource whose
\* last owner outside the manager was dropped is destroyed and its handle is
\* no longer valid in the table, although the map still has its entry; and
\* while a resource created by the manager is alive the manager is alive,
\* whether or not the user still holds it.
C20_ManagerObservesResourceLifetimes ==
    /\ \A r \in 1..Len(resources) :
          resources[r].owners = 0 =>
              /\ r \notin LiveResources
              /\ ~ValidHandle(buffer_table, resources[r].handle)
    /\ LiveHandles(buffer_table) =
          Cardinality({r \in 1..Len(resources) : resources[r].owners > 0})
    /\ LiveResources # {} => ManagerAlive

\* C20 witness: the user dropped the manager, then the last owner of one
\* resource was dropped while another resource is alive and the map still
\* holds the entry of the destroyed one.
C20_Witness ==
    /\ manager.created
    /\ manager.user_refs = 0
    /\ \E d \in DeadResources, l \in LiveResources :
          /\ d > l
          /\ \E h \in DOMAIN buffers : buffers[h] = d
          /\ ~ValidHandle(buffer_table, resources[d].handle)

\* C28 (as claimed): after any creates and destructions, the map `buffers`
\* holds an entry for a handle if and only if the resource of that handle is
\* alive, so its size is the number of live storage buffers.
C28_MapHoldsLiveResourcesOnly ==
    /\ \A h \in DOMAIN buffers : buffers[h] \in LiveResources
    /\ \A r \in LiveResources :
          resources[r].handle \in DOMAIN buffers /\ buffers[resources[r].handle] = r
    /\ Cardinality(DOMAIN buffers) = Cardinality(LiveResources)

\* C29 (as claimed): every handle index written as array_offset into the
\* storage-buffer binding is below the storage_buffers capacity the manager
\* was created with.
C29_ArrayOffsetBelowCapacity ==
    \A r \in 1..Len(resources) :
        /\ resources[r].write.binding = StorageBufferBinding
        /\ resources[r].write.array_offset < manager.storage_buffers

----------------------------------------------------------------------------
(* Properties of the surface format selection *)

\* Rank of a format in the order B8G8R8A8, R8G8B8A8, B8G8R8, R8G8B8 SRGB; 0 for any other
SrgbRank(format) ==
    CASE format = "B8G8R8A8Srgb" -> 1
      [] format = "R8G8B8A8Srgb" -> 2
      [] format = "B8G8R8Srgb" -> 3
      [] format = "R8G8B8Srgb" -> 4
      [] OTHER -> 0

\* The entries of the list that qualify
QualifyingFormats ==
    {f \in Range(surface_formats) : f.colorSpace = "SrgbNonlinear" /\ SrgbRank(f.format) > 0}

\* The list of the example
ExampleFormats ==
    << [format |-> "R8G8B8A8Unorm", colorSpace |-> "SrgbNonlinear"],
       [format |-> "B8G8R8A8Srgb", colorSpace |-> "SrgbNonlinear"],
       [format |-> "R8G8B8A8Srgb", colorSpace |-> "SrgbNonlinear"] >>

\* C18: select_srgb_surface_format returns a value if and only if the list
\* holds an SRGB-nonlinear entry of one of the four SRGB formats; the value
\* is the qualifying entry whose format comes first in the priority order,
\* whatever the positions of the entries; the example list gives B8G8R8A8Srgb.
C18_SrgbFormatByPriority ==
    format_call # NoCall =>
        /\ format_call.result.has_value <=> (QualifyingFormats # {})
        /\ format_call.result.has_value =>
              /\ format_call.result.value \in QualifyingFormats
              /\ \A f \in QualifyingFormats :
                    SrgbRank(format_call.result.value.format) <= SrgbRank(f.format)
        /\ surface_formats = ExampleFormats =>
              format_call.result.value = [format |-> "B8G8R8A8Srgb", colorSpace |-> "SrgbNonlinear"]

\* C18 witness: the list of the example, taken in reverse order, gave B8G8R8A8Srgb.
C18_Witness ==
    /\ surface_formats = ExampleFormats
    /\ format_call # NoCall
    /\ format_call.by = "reversed"
    /\ format_call.result.has_value
    /\ format_call.result.value.format = "B8G8R8A8Srgb"

----------------------------------------------------------------------------
(* Properties of the family search and the VulkanContext *)

\* The families of the driver with the graphics bit
GraphicsFamilies == {f \in FamilyIndices : Graphics \subseteq properties[f + 1].queueFlags}

\* C25 (as claimed): the family search returns one family for graphics and
\* present, graphics-capable and presentable, whenever some graphics-capable
\* family supports presentation; when none does but another family supports
\* presentation, it returns the first graphics-capable family as graphics
\* and a presentable family as present.
C25_GraphicsAndPresentFamilies ==
    (search_call # NoCall /\ GraphicsFamilies # {}) =>
        IF GraphicsFamilies \cap surface_support # {}
        THEN /\ search_call.result.outcome = "returned"
             /\ search_call.result.graphics = search_call.result.present
             /\ search_call.result.graphics \in GraphicsFamilies \cap surface_support
        ELSE surface_support # {} =>
                /\ search_call.result.outcome = "returned"
                /\ search_call.result.graphics = Lowest(GraphicsFamilies)
                /\ search_call.result.present \in surface_support

\* The families named by the queue create infos of the context's device
CreatedFamilies ==
    {context.queue_create_infos[i].queueFamilyIndex :
        i \in 1..Len(context.queue_create_infos)}

\* C30 (as claimed): the graphics queue and the present queue of a
\* constructed VulkanContext belong to families that are in the queue create
\* infos of its device, whatever the family search returned.
C30_ContextQueuesFromCreatedFamilies ==
    context.constructed = "yes" =>
        /\ context.graphics_queue.family \in CreatedFamilies
        /\ context.present_queue.family \in CreatedFamilies

----------------------------------------------------------------------------
(* Properties of the texture *)

\* The commands the last setImage recorded: call and layouts
RecordedCommands ==
    LET recorded == SelectSeq(texture_calls, LAMBDA c : c.recorded) IN
    [i \in 1..Len(recorded) |->
        IF recorded[i].call = "pipelineBarrier"
        THEN <<"transition", recorded[i].oldLayout, recorded[i].newLayout>>
        ELSE <<recorded[i].call>>]

\* The last setImage took the staged path
StagedPathTaken == \E i \in 1..Len(texture_calls) : texture_calls[i].call = "copyBufferToImage"

----------------------------------------------------------------------------
(* Properties of the demo frame *)

\* Positions of the calls of a name in the frame's calls
FrameCallPositions(name) == {i \in 1..Len(frame_calls) : frame_calls[i].call = name}

\* Present comes only after a wait on the draw fence that returned something
\* other than a timeout; a timeout is followed by another wait on the fence;
\* a suboptimal present is logged and followed by wait-idle and the event loop.
C24_FrameOrder ==
    /\ \A p \in FrameCallPositions("presentKHR") :
          \E w \in FrameCallPositions("waitForFences") :
              /\ w < p
              /\ frame_calls[w].fence = "drawFence"
              /\ frame_calls[w].result # "Timeout"
    /\ \A w \in FrameCallPositions("waitForFences") :
          frame_calls[w].result = "Timeout" =>
              IF w = Len(frame_calls)
              THEN frame.pc = "waiting"
              ELSE /\ frame_calls[w + 1].call = "waitForFences"
                   /\ frame_calls[w + 1].fence = frame_calls[w].fence
    /\ \A p \in FrameCallPositions("presentKHR") :
          frame_calls[p].result = "SuboptimalKHR" =>
              /\ frame.pc \in {"present_done", "events", "exited"}
              /\ frame_calls[p + 1].call = "log"
              /\ Len(frame_calls) > p + 1 => frame_calls[p + 2].call = "waitIdle"
              /\ Len(frame_calls) > p + 2 => frame_calls[p + 3].call = "glfwWindowShouldClose"

\* The draw fence is signaled while main waits on it
FenceSignaledWhileWaiting == frame.pc = "waiting" /\ frame.fence_signaled

\* presentKHR has been called
PresentIssued == FrameCallPositions("presentKHR") # {}

\* The last present returned suboptimal
PresentSuboptimal ==
    \E p \in FrameCallPositions("presentKHR") : frame_calls[p].result = "SuboptimalKHR"

\* C24: in the demo frame, present is issued only after a wait on the draw
\* fence returned a status other than timeout; every timeout leads to another
\* wait on the same fence, so once the fence is signaled the present
\* eventually happens; a suboptimal present is logged without aborting and
\* the program goes on to device wait-idle and the event loop.
C24_PresentAfterFence ==
    /\ []C24_FrameOrder
    /\ (FenceSignaledWhileWaiting ~> PresentIssued)
    /\ (PresentSuboptimal ~> (frame.pc \in {"events", "exited"}))

\* C24 witness: two timeouts, then the fence signaled, a suboptimal present,
\* and the event loop reached.
C24_Witness ==
    /\ frame.pc = "events"
    /\ frame.timeouts = 2
    /\ frame.fence_signaled
    /\ PresentSuboptimal

====
